---- MODULE Spec2Model ----
(***************************************************************************)
(* gollm: the conversation model (Prompt), the tool registry and the       *)
(* Ollama and OpenAI backend adapters (Converse, Generate), as a state     *)
(* machine.  One caller drives one conversation; the backend's answers     *)
(* are inputs.                                                             *)
(***************************************************************************)
EXTENDS Integers, Sequences, FiniteSets, Bags, TLC

\* Bounds of the exploration.
MaxMsgs == 1
MaxToolCalls == 2
MaxCalls == 1

\* net/http StatusOK, the only status both adapters accept.
StatusOK == 200

-----------------------------------------------------------------------------
\* Errors are wrap chains: the outermost message first, the wrapped errors after.

\* var ErrToolNotFound = fmt.Errorf("tool not found")
ErrToolNotFound == "tool not found"

NoErr == <<>>

\* errors.New(msg) / fmt.Errorf(msg) with no %w
NewError(msg) == <<msg>>

\* fmt.Errorf(msg + ": %w", err)
Wrapf(msg, err) == <<msg>> \o err

\* err.Error(), as %v prints it: the messages of the chain joined by ": "
RECURSIVE ErrorText(_)
ErrorText(err) ==
    IF Len(err) <= 1 THEN (IF err = <<>> THEN "" ELSE err[1])
    ELSE err[1] \o ": " \o ErrorText(Tail(err))

\* errors.Is(err, target): target is somewhere in the chain
ErrorsIs(err, target) == \E i \in 1..Len(err) : err[i] = target

-----------------------------------------------------------------------------
\* Conversation model (backend.go)

\* A nil / empty map[string]any
NoFields == [k \in {} |-> ""]

\* b's entries written over a's
MapMerge(a, b) ==
    [k \in DOMAIN a \cup DOMAIN b |-> IF k \in DOMAIN b THEN b[k] ELSE a[k]]

Message(role, content, fields) ==
    [Role |-> role, Content |-> content, Fields |-> fields]

ZeroParameters ==
    [MaxTokens |-> 0, Temperature |-> "0", TopP |-> "0",
     FrequencyPenalty |-> "0", PresencePenalty |-> "0"]

\* Prompt.AddMessage: the message list after the call
AddMessageDropsOld(msgs, role, content) ==
    <<Message(role, content, NoFields)>>

AddMessage(msgs, role, content) ==
    Append(msgs, Message(role, content, NoFields))

AppendMessagePrepends(msgs, msg) == <<msg>> \o msgs

\* Prompt.AppendMessage: the message list after the call
AppendMessage(msgs, msg) == Append(msgs, msg)

\* Prompt.SetParameters: the parameters after the call
SetParameters(old, params) == params

AsMapRoleWins(msgs) ==
    [i \in 1..Len(msgs) |->
        MapMerge(msgs[i].Fields,
                 [role |-> msgs[i].Role, content |-> msgs[i].Content])]

\* Prompt.AsMap: one map per message, role and content first, Fields on top
AsMap(msgs) ==
    [i \in 1..Len(msgs) |->
        MapMerge([role |-> msgs[i].Role, content |-> msgs[i].Content],
                 msgs[i].Fields)]

\* encoding/json of a Message through its struct tags (fields,omitempty)
MarshalMessage(msg) ==
    IF DOMAIN msg.Fields = {}
    THEN [role |-> msg.Role, content |-> msg.Content]
    ELSE [role |-> msg.Role, content |-> msg.Content, fields |-> msg.Fields]

\* PromptResponse{}
NoResponse == [Role |-> "", Content |-> "", ToolCalls |-> <<>>]

ToolCallWithoutResult(name, args, result) ==
    [Function |-> [Name |-> name, Arguments |-> args, Result |-> ""]]

\* ToolCall{Function: FunctionCall{Name, Arguments, Result}}
ToolCall(name, args, result) ==
    [Function |-> [Name |-> name, Arguments |-> args, Result |-> result]]

-----------------------------------------------------------------------------
\* Tool registry (tools.go) and the tools a caller registers

\* examples/tools/weather: weatherData, each report as json.Marshal prints it
weatherData ==
    [London |-> "{\"city\":\"London\",\"temperature\":\"15°C\",\"conditions\":\"Rainy\"}",
     Stockholm |-> "{\"city\":\"Stockholm\",\"temperature\":\"10°C\",\"conditions\":\"Sunny\"}",
     Brno |-> "{\"city\":\"Brno\",\"temperature\":\"18°C\",\"conditions\":\"Clear skies\"}"]

weatherReport(city) ==
    IF city \in DOMAIN weatherData
    THEN [out |-> weatherData[city], err |-> NoErr]
    ELSE [out |-> "", err |-> NewError("city not found")]

weatherReportWrapper(params) ==
    IF "city" \notin DOMAIN params
    THEN [out |-> "", err |-> NewError("city must be a string")]
    ELSE weatherReport(params["city"])

\* A caller's tool that forwards to a registry of its own and hands back that
\* registry's error: its wrapper returns an error wrapping ErrToolNotFound.
lookupWrapper(params) ==
    [out |-> "", err |-> Wrapf("lookup: no such entry", <<ErrToolNotFound>>)]

\* A second implementation a caller registers under the name "weather"
stubWeatherWrapper(params) == [out |-> "Sunny", err |-> NoErr]

\* A caller's tool that draws a chart
plotWrapper(params) == [out |-> "plotted", err |-> NoErr]

\* toolEntry.Function.Wrapper(args)
Wrapper(w, args) ==
    CASE w = "weatherReportWrapper" -> weatherReportWrapper(args)
      [] w = "lookupWrapper" -> lookupWrapper(args)
      [] w = "stubWeatherWrapper" -> stubWeatherWrapper(args)
      [] w = "plotWrapper" -> plotWrapper(args)

\* weather.Tool()
WeatherTool ==
    [Type |-> "function", Name |-> "weather",
     Description |-> "Get weather report for a city",
     Parameters |->
        [type |-> "object",
         properties |->
            [city |-> [type |-> "string",
                       description |-> "The city for which to get the weather report"]],
         required |-> <<"city">>],
     Wrapper |-> "weatherReportWrapper"]

LookupTool ==
    [Type |-> "function", Name |-> "lookup",
     Description |-> "Look an entry up",
     Parameters |-> [type |-> "object"],
     Wrapper |-> "lookupWrapper"]

\* Registered under the name of weather.Tool(), with another wrapper
StubWeatherTool ==
    [Type |-> "function", Name |-> "weather",
     Description |-> "Always sunny",
     Parameters |-> [type |-> "object"],
     Wrapper |-> "stubWeatherWrapper"]

\* math.NaN(), a float64 encoding/json refuses to marshal
NaN == "NaN"

\* A tool whose parameter schema holds a value encoding/json cannot marshal
PlotTool ==
    [Type |-> "function", Name |-> "plot",
     Description |-> "Plot a series",
     Parameters |-> [type |-> "object", minimum |-> NaN],
     Wrapper |-> "plotWrapper"]

\* A caller's tool whose wrapper registers a tool in the registry it is run from:
\* func(args) (string, error) { registry.RegisterTool(weather.Tool()); ... }
EnrollTool ==
    [Type |-> "function", Name |-> "enroll",
     Description |-> "Make the weather tool available",
     Parameters |-> [type |-> "object"],
     Wrapper |-> "enrollWrapper"]

\* What enrollWrapper returns once its RegisterTool has returned
enrollWrapperReturn == [out |-> "enrolled", err |-> NoErr]

ToolInputs == {WeatherTool, LookupTool, PlotTool}

\* NewToolRegistry: an empty map from tool name to Tool
NewToolRegistry == [n \in {} |-> WeatherTool]

RegisterToolKeepsFirst(reg, t) ==
    [n \in DOMAIN reg \cup {t.Name} |-> IF n \in DOMAIN reg THEN reg[n] ELSE t]

\* ToolRegistry.RegisterTool: r.tools[t.Function.Name] = t
RegisterTool(reg, t) ==
    [n \in DOMAIN reg \cup {t.Name} |-> IF n = t.Name THEN t ELSE reg[n]]

\* ToMap(tool): the JSON of a Tool read back as a map; Wrapper is json:"-"
ToMap(t) ==
    [type |-> t.Type,
     function |-> [name |-> t.Name, description |-> t.Description,
                   parameters |-> t.Parameters]]

\* ToMap(tool): the error of json.Marshal, flattened by %v
ToMapErr(t) ==
    IF "minimum" \in DOMAIN t.Parameters /\ t.Parameters.minimum = NaN
    THEN NewError("error marshaling to JSON: json: unsupported value: NaN")
    ELSE NoErr

\* ToolRegistry.ToolsMap: map iteration order is unspecified, so a set
ToolsMap(reg) == {ToMap(reg[n]) : n \in DOMAIN reg}

\* ToolRegistry.ToolsMap: the error it returns, from inside the loop that
\* holds the lock, as soon as the iteration meets a tool ToMap rejects
ToolsMapErr(reg) ==
    IF \E n \in DOMAIN reg : ToMapErr(reg[n]) # NoErr
    THEN Wrapf("failed to convert tool list to map",
               ToMapErr(reg[CHOOSE n \in DOMAIN reg : ToMapErr(reg[n]) # NoErr]))
    ELSE NoErr

\* A call of a tool's wrapper: which wrapper ran, on which arguments
Invocation(w, args) == [Wrapper |-> w, Args |-> args]

ExecuteToolRunsAnyTool(reg, toolName, args) ==
    IF DOMAIN reg = {}
    THEN [found |-> FALSE, out |-> "", ran |-> <<>>,
          err |-> Wrapf(ErrToolNotFound \o ": " \o toolName, <<ErrToolNotFound>>)]
    ELSE LET n == IF toolName \in DOMAIN reg THEN toolName
                  ELSE CHOOSE k \in DOMAIN reg : TRUE
         IN  [found |-> TRUE, ran |-> <<Invocation(reg[n].Wrapper, args)>>]
             @@ Wrapper(reg[n].Wrapper, args)

\* ToolRegistry.ExecuteTool: what it returns, and the wrapper calls it made
ExecuteTool(reg, toolName, args) ==
    IF toolName \notin DOMAIN reg
    THEN [found |-> FALSE, out |-> "", ran |-> <<>>,
          err |-> Wrapf(ErrToolNotFound \o ": " \o toolName, <<ErrToolNotFound>>)]
    ELSE [found |-> TRUE, ran |-> <<Invocation(reg[toolName].Wrapper, args)>>]
         @@ Wrapper(reg[toolName].Wrapper, args)

-----------------------------------------------------------------------------
\* What the backends put on the wire (inputs of the adapters)

SeqsUpTo(S, n) == UNION {[1..k -> S] : k \in 0..n}

\* An HTTP exchange as Client.Do, io.ReadAll and the JSON decoder see it: the
\* transport failed, or a status came back with a body that cannot be read to
\* its end, or with one that decodes into result or not.
TransportFailure(zero) ==
    [failed |-> TRUE, status |-> 0, decodes |-> FALSE, result |-> zero, body |-> "",
     readable |-> FALSE]

\* The connection drops after the headers: reading resp.Body returns an error
\* and no bytes
UnreadableBody(status, zero) ==
    [failed |-> FALSE, status |-> status, decodes |-> FALSE, result |-> zero,
     body |-> "", readable |-> FALSE]

\* io.ReadAll(resp.Body): the text of a body that is JSON of the expected type,
\* and of one that is not
BodyText(decodes) == IF decodes THEN "{...}" ELSE "Internal Server Error"

HTTPResponse(status, decodes, result) ==
    [failed |-> FALSE, status |-> status, decodes |-> decodes, result |-> result,
     body |-> BodyText(decodes), readable |-> TRUE]

\* OllamaResponse: the fields the adapter reads
OllamaResult(response, content, toolCalls) ==
    [Response |-> response,
     Message |-> [Role |-> "assistant", Content |-> content, ToolCalls |-> toolCalls]]

\* OllamaToolCall / OllamaFunctionCall: arguments arrive as a JSON object
OllamaToolCallInputs ==
    { [Function |-> [Name |-> "weather", Arguments |-> [city |-> "London"]]],
      [Function |-> [Name |-> "weather", Arguments |-> [city |-> "Atlantis"]]],
      [Function |-> [Name |-> "lookup", Arguments |-> NoFields]] }

OllamaChatResults ==
    { OllamaResult("", IF tcs = <<>> THEN "Hello!" ELSE "", tcs) :
        tcs \in SeqsUpTo(OllamaToolCallInputs, MaxToolCalls) }

OllamaGenerateResults ==
    { OllamaResult("Hello!", "", <<>>), OllamaResult("", "Hello!", <<>>) }

OllamaResponses(results) ==
    {TransportFailure(OllamaResult("", "", <<>>))}
    \cup {HTTPResponse(s, FALSE, OllamaResult("", "", <<>>)) : s \in {StatusOK, 500}}
    \cup {UnreadableBody(s, OllamaResult("", "", <<>>)) : s \in {StatusOK, 500}}
    \cup {HTTPResponse(201, TRUE, OllamaResult("Hello!", "Hello!", <<>>))}
    \cup {HTTPResponse(StatusOK, TRUE, r) : r \in results}

\* OpenAIToolCall ids as the backend numbers the calls of one reply
CallID(i) == "call_" \o ToString(i)

\* OpenAIToolFunction: arguments arrive as a string holding JSON
OpenAIFunctionInputs ==
    { [Name |-> "weather", Arguments |-> "{\"city\":\"London\"}"],
      [Name |-> "weather", Arguments |-> "{\"city\":\"Atlantis\"}"],
      [Name |-> "lookup", Arguments |-> "{}"],
      [Name |-> "weather", Arguments |-> "{\"city\":"] }

OpenAIToolCallLists ==
    { [i \in 1..Len(fs) |-> [ID |-> CallID(i), Type |-> "function", Function |-> fs[i]]] :
        fs \in SeqsUpTo(OpenAIFunctionInputs, MaxToolCalls) }

\* OpenAIResponse: the fields the adapter reads
OpenAIResult(choices) == [Choices |-> choices]

OpenAIChoice(content, toolCalls) ==
    [Message |-> [Role |-> "assistant", Content |-> content, ToolCalls |-> toolCalls]]

OpenAIChatResults ==
    {OpenAIResult(<<>>)}
    \cup { OpenAIResult(<<OpenAIChoice(IF tcs = <<>> THEN "Hello!" ELSE "", tcs)>>) :
             tcs \in OpenAIToolCallLists }

OpenAIGenerateResults ==
    { OpenAIResult(<<>>),
      OpenAIResult(<<OpenAIChoice("Hello!", <<>>)>>),
      OpenAIResult(<<OpenAIChoice("Hello!", <<>>), OpenAIChoice("Bye!", <<>>)>>) }

OpenAIResponses(results) ==
    {TransportFailure(OpenAIResult(<<>>))}
    \cup {HTTPResponse(s, FALSE, OpenAIResult(<<>>)) : s \in {StatusOK, 500}}
    \cup {UnreadableBody(s, OpenAIResult(<<>>)) : s \in {StatusOK, 500}}
    \cup {HTTPResponse(201, TRUE, OpenAIResult(<<OpenAIChoice("Hello!", <<>>)>>))}
    \cup {HTTPResponse(StatusOK, TRUE, r) : r \in results}

\* OpenAIEmbeddingResponse: the field the adapter reads
OpenAIEmbeddingResult(data) == [Data |-> data]

OpenAIEmbedResults ==
    { OpenAIEmbeddingResult(<<>>),
      OpenAIEmbeddingResult(<<[Embedding |-> <<"0.1", "0.2", "0.3">>]>>) }

OpenAIEmbedResponses ==
    {TransportFailure(OpenAIEmbeddingResult(<<>>))}
    \cup {HTTPResponse(s, FALSE, OpenAIEmbeddingResult(<<>>)) : s \in {StatusOK, 500}}
    \cup {UnreadableBody(s, OpenAIEmbeddingResult(<<>>)) : s \in {StatusOK, 500}}
    \cup {HTTPResponse(StatusOK, TRUE, r) : r \in OpenAIEmbedResults}

jsonUnmarshalArgsLenient(s) ==
    CASE s = "{\"city\":\"London\"}" -> [err |-> NoErr, val |-> [city |-> "London"]]
      [] s = "{\"city\":\"Atlantis\"}" -> [err |-> NoErr, val |-> [city |-> "Atlantis"]]
      [] OTHER -> [err |-> NoErr, val |-> NoFields]

\* json.Unmarshal([]byte(toolArgs), &parsedArgs) on the argument strings above;
\* the JSON null leaves parsedArgs the nil map
jsonUnmarshalArgs(s) ==
    CASE s = "{\"city\":\"London\"}" -> [err |-> NoErr, val |-> [city |-> "London"]]
      [] s = "{\"city\":\"Atlantis\"}" -> [err |-> NoErr, val |-> [city |-> "Atlantis"]]
      [] s = "{}" -> [err |-> NoErr, val |-> NoFields]
      [] s = "null" -> [err |-> NoErr, val |-> NoFields]
      [] OTHER -> [err |-> NewError("unexpected end of JSON input"), val |-> NoFields]

-----------------------------------------------------------------------------
\* Requests the adapters build

\* OllamaBackend.converseRoundTrip: reqBody of /api/chat
OllamaChatRequest(msgs, reg, disableTools) ==
    [url |-> "/api/chat",
     body |-> IF disableTools
              THEN [model |-> "model", messages |-> AsMap(msgs), stream |-> FALSE]
              ELSE [model |-> "model", messages |-> AsMap(msgs), stream |-> FALSE,
                    tools |-> ToolsMap(reg)]]

\* OpenAIBackend.Converse: reqBody of /v1/chat/completions
OpenAIChatRequestLastOnly(msgs, reg) ==
    [url |-> "/v1/chat/completions",
     body |-> [model |-> "model",
               messages |-> AsMap(IF msgs = <<>> THEN <<>> ELSE <<msgs[Len(msgs)]>>),
               stream |-> FALSE, tools |-> ToolsMap(reg)]]

OpenAIChatRequest(msgs, reg) ==
    [url |-> "/v1/chat/completions",
     body |-> [model |-> "model", messages |-> AsMap(msgs), stream |-> FALSE,
               tools |-> ToolsMap(reg)]]

RECURSIVE promptTextReversed(_)
promptTextReversed(msgs) ==
    IF msgs = <<>> THEN ""
    ELSE promptTextReversed(Tail(msgs))
         \o Head(msgs).Role \o ": " \o Head(msgs).Content \o "\n"

\* OllamaBackend.Generate: promptText += message.Role + ": " + message.Content + "\n"
RECURSIVE promptText(_)
promptText(msgs) ==
    IF msgs = <<>> THEN ""
    ELSE promptText(SubSeq(msgs, 1, Len(msgs) - 1))
         \o msgs[Len(msgs)].Role \o ": " \o msgs[Len(msgs)].Content \o "\n"

\* OllamaBackend.Generate: reqBody of /api/generate
OllamaGenerateRequest(msgs, params) ==
    [url |-> "/api/generate",
     body |-> [model |-> "model", prompt |-> promptText(msgs),
               max_tokens |-> params.MaxTokens, temperature |-> params.Temperature,
               top_p |-> params.TopP, frequency_penalty |-> params.FrequencyPenalty,
               presence_penalty |-> params.PresencePenalty, stream |-> FALSE]]

\* OpenAIBackend.Generate: reqBody of /v1/chat/completions
OpenAIGenerateRequest(msgs, params) ==
    [url |-> "/v1/chat/completions",
     body |-> [model |-> "model",
               messages |-> [i \in 1..Len(msgs) |-> MarshalMessage(msgs[i])],
               max_tokens |-> params.MaxTokens, temperature |-> params.Temperature,
               top_p |-> params.TopP, frequency_penalty |-> params.FrequencyPenalty,
               presence_penalty |-> params.PresencePenalty]]

\* OpenAIBackend.Embed: reqBody of /v1/embeddings
OpenAIEmbedRequest(text) ==
    [url |-> "/v1/embeddings", body |-> [model |-> "model", input |-> text]]

-----------------------------------------------------------------------------
\* The adapters' decisions, as functions of what they have in hand

\* json.NewDecoder(body).Decode(&result) failed: the body is not JSON of the
\* expected type, or the decoder's read of the body failed
DecodeError(r) == NewError(IF r.readable THEN "json" ELSE "read")

OllamaCheckResponseIgnoresStatus(r) ==
    IF r.failed THEN Wrapf("HTTP request failed", NewError("transport"))
    ELSE IF ~r.decodes THEN Wrapf("failed to decode response", DecodeError(r))
    ELSE NoErr

\* converseRoundTrip (Ollama): Client.Do, status check (the error of reading
\* the body for the message is dropped), decode
OllamaCheckResponse(r) ==
    IF r.failed THEN Wrapf("HTTP request failed", NewError("transport"))
    ELSE IF r.status # StatusOK
    THEN NewError("failed to generate response from Ollama: status code "
                  \o ToString(r.status) \o ", response: " \o r.body)
    ELSE IF ~r.decodes THEN Wrapf("failed to decode response", DecodeError(r))
    ELSE NoErr

\* Converse (OpenAI): Client.Do, status check (the error of reading the body
\* for the message is dropped), decode
OpenAICheckResponse(r) ==
    IF r.failed THEN Wrapf("HTTP request failed", NewError("transport"))
    ELSE IF r.status # StatusOK
    THEN NewError("failed to generate response from OpenAI: status code "
                  \o ToString(r.status) \o ", response: " \o r.body)
    ELSE IF ~r.decodes THEN Wrapf("failed to decode response", DecodeError(r))
    ELSE NoErr

\* Generate (Ollama): Client.Do, io.ReadAll of the body, status check, decode
OllamaGenerateCheckResponse(r) ==
    IF r.failed THEN Wrapf("HTTP request failed", NewError("transport"))
    ELSE IF ~r.readable THEN Wrapf("failed to read response body", NewError("read"))
    ELSE OllamaCheckResponse(r)

\* Generate (OpenAI): Client.Do, status check with io.ReadAll of the body, decode
OpenAIGenerateCheckResponse(r) ==
    IF r.failed THEN Wrapf("HTTP request failed", NewError("transport"))
    ELSE IF r.status # StatusOK /\ ~r.readable
    THEN Wrapf("failed to read response body", NewError("read"))
    ELSE OpenAICheckResponse(r)

\* Embed (OpenAI): Client.Do, status check with io.ReadAll of the body, decode
OpenAIEmbedCheckResponse(r) ==
    IF r.failed THEN Wrapf("HTTP request failed", NewError("transport"))
    ELSE IF r.status # StatusOK /\ ~r.readable
    THEN Wrapf("failed to read response body", NewError("read"))
    ELSE IF r.status # StatusOK
    THEN NewError("failed to generate embedding from OpenAI: status code "
                  \o ToString(r.status) \o ", response: " \o r.body)
    ELSE IF ~r.decodes THEN Wrapf("failed to decode response", DecodeError(r))
    ELSE NoErr

\* converseRoundTrip (Ollama): the error an ExecuteTool error turns into
OllamaToolError(err) ==
    IF ErrorsIs(err, ErrToolNotFound) THEN <<ErrToolNotFound>>
    ELSE Wrapf("failed to execute tool", err)

\* Converse (OpenAI): the error an ExecuteTool error turns into
OpenAIToolError(err) == Wrapf("failed to execute tool", err)

\* OllamaBackend.Converse: errors.Is(err, ErrToolNotFound) after the first round trip
OllamaRetriesAlways(n, err) == ErrorsIs(err, ErrToolNotFound)

OllamaRetriesAfterAnyRound(n, err) == n = 1

OllamaRetries(n, err) == n = 1 /\ ErrorsIs(err, ErrToolNotFound)

\* converseRoundTrip (Ollama): prompt.AddMessage("tool", toolResponse)
OllamaToolMessages(msgs, calls, i, out) == AddMessage(msgs, "tool", out)

\* Converse (OpenAI): the two AppendMessage calls after a tool ran; both read
\* ToolCalls[0] of the reply, whichever call i is being handled
OpenAIToolMessagesNoEnvelope(msgs, calls, i, out) ==
    AppendMessage(msgs,
        Message("tool", out, [tool_call_id |-> calls[1].ID]))

OpenAIToolMessages(msgs, calls, i, out) ==
    AppendMessage(
        AppendMessage(msgs,
            Message("assistant", "",
                [type |-> calls[1].Type,
                 tool_calls |-> <<[id |-> calls[1].ID,
                                   type |-> calls[1].Type,
                                   function |-> [name |-> calls[1].Function.Name,
                                                 arguments |-> calls[1].Function.Arguments]]>>])),
        Message("tool", out, [tool_call_id |-> calls[1].ID]))

\* Generate (both adapters): prompt.Messages is read, never written
GenerateAppendsReply(msgs, text) == AddMessage(msgs, "assistant", text)

GenerateMessages(msgs, text) == msgs

\* Generate (Ollama): return result.Response
OllamaGenerateTextFromMessage(result) == result.Message.Content

OllamaGenerateText(result) == result.Response

\* Generate (OpenAI): return result.Choices[0].Message.Content
OpenAIGenerateText(result) == result.Choices[1].Message.Content

-----------------------------------------------------------------------------
\* State

VARIABLES
    messages,    \* Prompt.Messages
    parameters,  \* Prompt.Parameters
    tools,       \* Prompt.Tools.tools
    pc,          \* where the caller's current call stands
    call,        \* the call in progress or last returned: operation and backend
    attempt,     \* Converse (Ollama): which converseRoundTrip is running
    result,      \* the response of the round trip that is running or ran last
    idx,         \* position of the tool-call loop in the reply's tool calls
    response,    \* the PromptResponse being accumulated by the loop
    ret,         \* what the call returned to the caller
    before,      \* history: Prompt.Messages when the call started
    requests,    \* history: the requests the call has sent
    nresponses,  \* history: how many responses the call has received
    attempts,    \* history: (resp, err) of each finished round trip of the call
    execLog,     \* history: the ExecuteTool invocations of the call
    ncalls,      \* number of Converse / Generate calls that sent a request
    m,           \* Prompt.Tools.m: who holds the registry's mutex
    threads,     \* the goroutines that share the registry with the caller
    db,          \* the vector stores, and the arguments of the last call on them
    parked       \* the conversation of the goroutine that is not running

vars == <<messages, parameters, tools, pc, call, attempt, result, idx, response,
          ret, before, requests, nresponses, attempts, execLog, ncalls, m, threads, db, parked>>

\* sync.Mutex: unlocked, or locked by the caller's goroutine or by one of the others
Unlocked == "unlocked"

MainThread == "main"

Threads == {"t1", "t2"}

\* Bound of the exploration: points the Qdrant collections hold together
MaxDocs == 2

\* Bound of the exploration: rows the tables of the PostgreSQL database hold together
MaxRows == 7

\* case 1536: the length of an OpenAI embedding
OpenAIDim == 1536

\* case 1024: the length of an Ollama embedding
OllamaDim == 1024

\* LIMIT 5
QueryLimit == 5

\* The tables SaveEmbeddings inserts into and QueryRelevantDocuments selects from
PGTables == {"openai_embeddings", "ollama_embeddings"}

\* An embedding of n components, all x. The embeddings of the PostgreSQL store
\* are kept as this pair: a tuple of 1536 numbers in every row is out of reach
Vec(n, x) == [n |-> n, x |-> x]

\* len(embedding)
Dim(embedding) == embedding.n

\* PGVector.SaveEmbeddings: switch len(embedding); "" stands for the default case
TableOfLengthAny(n) == "openai_embeddings"

TableOfLength(n) ==
    CASE n = OpenAIDim -> "openai_embeddings"
      [] n = OllamaDim -> "ollama_embeddings"
      [] OTHER -> ""

\* PGVector.SaveEmbeddings: the tables after the call, and the error returned;
\* execOK is whether conn.Exec succeeded
PGSaveEmbeddings(pg, docID, embedding, metadata, execOK) ==
    LET table == TableOfLength(Dim(embedding))
    IN  IF table = ""
        THEN [pg |-> pg,
              err |-> NewError("unsupported embedding length: "
                               \o ToString(Dim(embedding)))]
        ELSE IF ~execOK
        THEN [pg |-> pg, err |-> Wrapf("failed to insert document", NewError("exec"))]
        ELSE [pg |-> [pg EXCEPT ![table] =
                        @ (+) SetToBag({[doc_id |-> docID, embedding |-> embedding,
                                         metadata |-> metadata]})],
              err |-> NoErr]

\* PGVector.QueryRelevantDocuments: switch backend; "" stands for the default case
TableOfBackendSwapped(backend) ==
    CASE backend = "openai" -> "ollama_embeddings"
      [] backend = "ollama" -> "openai_embeddings"
      [] OTHER -> ""

TableOfBackend(backend) ==
    CASE backend = "openai" -> "openai_embeddings"
      [] backend = "ollama" -> "ollama_embeddings"
      [] OTHER -> ""

\* embedding <-> $1, squared, of two embeddings of the same length: every
\* component adds the square of the difference
SquaredDistance(a, b) == a.n * (a.x - b.x) * (a.x - b.x)

\* The rows of a sequence as a bag
SeqToBag(rows) ==
    [r \in {rows[i] : i \in DOMAIN rows} |->
        Cardinality({i \in DOMAIN rows : rows[i] = r})]

\* ORDER BY embedding <-> $1 LIMIT 5: the row sequences the query may yield,
\* rows of equal distance in any order
NearestRows(table, vector) ==
    LET rows == BagToSet(table)
        d == [r \in rows |-> SquaredDistance(r.embedding, vector)]
        k == IF BagCardinality(table) < QueryLimit THEN BagCardinality(table)
             ELSE QueryLimit
    IN  { s \in [1..k -> rows] :
            /\ SeqToBag(s) \sqsubseteq table
            /\ \A i \in 1..(k - 1) : d[s[i]] <= d[s[i + 1]]
            /\ \A r \in BagToSet(table (-) SeqToBag(s)) :
                  \A i \in 1..k : d[s[i]] <= d[r] }

\* rows.Scan(&doc.ID, &doc.Metadata) for every row; no row leaves docs nil
ScanRows(rows) ==
    [i \in DOMAIN rows |-> [ID |-> rows[i].doc_id, Metadata |-> rows[i].metadata]]

\* embedding <-> $1 is defined when the stored vector has the dimension of the
\* query's; otherwise the server raises an error while it executes the query
CanCompare(table, vector) ==
    \A r \in BagToSet(table) : Dim(r.embedding) = Dim(vector)

\* What the caller of the PGVector methods passes in
PGDocIDs == {"doc-1", "doc-2"}

PGEmbeddingInputs ==
    { Vec(OpenAIDim, 0), Vec(OpenAIDim, 1), Vec(OllamaDim, 0),
      Vec(OpenAIDim - 1, 0) }

PGQueryInputs == {Vec(OpenAIDim, 0), Vec(OllamaDim, 0)}

PGBackendInputs == {"openai", "ollama", "qdrant"}

PGContent == "Qdrant is a vector database"

\* The collections of the Qdrant server
Collections == {"docs", "notes"}

\* uuid.New().String(): an identifier no earlier call has drawn
DocIDs == {"uuid-" \o ToString(i) : i \in 1..(MaxDocs + 1)}

\* No collection created, no point in any collection, no call made yet
NoDocuments ==
    [collections |-> {},
     qdrant |-> [c \in Collections |-> {}],
     pg |-> [t \in PGTables |-> EmptyBag],
     last |-> [content |-> "", embedding |-> <<>>, collection |-> "", opts |-> <<>>]]

\* AddDocumentMetadata(key, value): metadata[key] = value
AddDocumentMetadata(metadata, opt) == MapMerge(metadata, opt)

\* InsertDocument: the metadata map after "content" is set and every option ran
RECURSIVE InsertMetadata(_, _)
InsertMetadata(content, opts) ==
    IF opts = <<>> THEN [content |-> content]
    ELSE AddDocumentMetadata(InsertMetadata(content, SubSeq(opts, 1, Len(opts) - 1)),
                             opts[Len(opts)])

\* QdrantVector.SaveEmbeddings: Upsert of one point; a point of the same id is replaced
SaveEmbeddings(points, docID, embedding, metadata) ==
    {q \in points : q.Id # docID}
    \cup {[Id |-> docID, Vectors |-> embedding, Payload |-> metadata]}

\* What the caller of InsertDocument passes in
InsertOptionInputs ==
    { <<>>,
      <<[source |-> "wiki"]>>,
      <<[content |-> "shadow"]>>,
      <<[source |-> "wiki"], [content |-> "shadow"]>> }

InsertDocumentInputs ==
    { [content |-> c, embedding |-> e, collection |-> col, opts |-> o] :
        c \in {"Qdrant is a vector database", ""},
        e \in {<<"0.1", "0.2", "0.3">>, <<>>},
        col \in Collections,
        o \in InsertOptionInputs }

\* A goroutine outside the registry's methods
IdleThread == [op |-> "none", pc |-> "idle", in |-> <<>>, out |-> <<>>, outer |-> <<>>]

NoCall == [op |-> "none", backend |-> "none"]

\* no response in hand
NoResult == [failed |-> FALSE, status |-> 0, decodes |-> FALSE, result |-> <<>>,
             body |-> "", readable |-> FALSE]

NoReturn == [kind |-> "none", resp |-> NoResponse, text |-> "", err |-> NoErr,
             wire |-> <<>>]

ReturnResponse(resp, err) ==
    [kind |-> IF err = NoErr THEN "ok" ELSE "error",
     resp |-> resp, text |-> "", err |-> err, wire |-> <<>>]

ReturnText(text, err) ==
    [kind |-> IF err = NoErr THEN "ok" ELSE "error",
     resp |-> NoResponse, text |-> text, err |-> err, wire |-> <<>>]

\* Embed's ([]float32, error)
ReturnEmbedding(embedding, err) ==
    [kind |-> IF err = NoErr THEN "ok" ELSE "error",
     resp |-> NoResponse, text |-> "", err |-> err, wire |-> embedding]

\* return p: the method hands back the Prompt it was called on
ReturnSelf == [NoReturn EXCEPT !.kind = "self"]

\* a runtime panic (index out of range) unwinding through the caller
Panic == [kind |-> "panic", resp |-> NoResponse, text |-> "", err |-> NoErr,
          wire |-> <<>>]

\* What the caller passes in
AddMessageInputs ==
    { <<"user", "What is the weather in London?">> }

AppendMessageInputs ==
    { Message("user", "And in Brno?", [name |-> "alice"]) }

\* The text the caller asks an embedding of
EmbedInputs == {"Qdrant is a vector database"}

\* Messages whose extra fields use the keys AsMap writes itself
CollidingMessageInputs ==
    { Message("assistant", "Hi", [role |-> "system"]),
      Message("tool", "15", [content |-> "16", tool_call_id |-> "call_1"]),
      Message("user", "Hi", [role |-> "user", content |-> "Hi"]) }

ParametersInputs ==
    { [MaxTokens |-> 150, Temperature |-> "0.7", TopP |-> "0.9",
       FrequencyPenalty |-> "0.5", PresencePenalty |-> "0.6"] }

\* A second NewPrompt(), for a goroutine of its own: the Prompt, and what the
\* goroutine's call has done so far
NewConversation(id) ==
    [id |-> id, messages |-> <<>>, parameters |-> ZeroParameters,
     tools |-> NewToolRegistry, pc |-> "idle", call |-> NoCall, attempt |-> 0,
     result |-> NoResult, idx |-> 0, response |-> NoResponse, ret |-> NoReturn,
     before |-> <<>>, requests |-> <<>>, nresponses |-> 0, attempts |-> <<>>,
     execLog |-> <<>>, ncalls |-> 0, m |-> Unlocked]

\* NewPrompt()
Init ==
    /\ messages = <<>>
    /\ parameters = ZeroParameters
    /\ tools = NewToolRegistry
    /\ pc = "idle"
    /\ call = NoCall
    /\ attempt = 0
    /\ result = NoResult
    /\ idx = 0
    /\ response = NoResponse
    /\ ret = NoReturn
    /\ before = <<>>
    /\ requests = <<>>
    /\ nresponses = 0
    /\ attempts = <<>>
    /\ execLog = <<>>
    /\ ncalls = 0
    /\ m = Unlocked
    /\ threads = [t \in Threads |-> IdleThread]
    /\ db = NoDocuments
    /\ parked = NewConversation(2)

\* The caller is between calls
CallerReady == pc \in {"idle", "returned"}

\* A new call starts with a clean record of what it did, and sends its request
SendRequest(op, backend, request) ==
    /\ CallerReady
    /\ UNCHANGED <<threads, db, parked>>
    /\ call' = [op |-> op, backend |-> backend]
    /\ attempt' = 1
    /\ before' = messages
    /\ requests' = <<request>>
    /\ nresponses' = 0
    /\ attempts' = <<>>
    /\ execLog' = <<>>
    /\ result' = NoResult
    /\ idx' = 0
    /\ response' = NoResponse
    /\ ret' = NoReturn
    /\ pc' = "await"

\* A backend call of the application, of which the exploration makes MaxCalls
StartCall(op, backend, request) ==
    /\ ncalls < MaxCalls
    /\ ncalls' = ncalls + 1
    /\ SendRequest(op, backend, request)

\* A method that makes no backend call runs to completion between backend calls
MethodCall(op) ==
    /\ CallerReady
    /\ call' = [op |-> op, backend |-> "none"]
    /\ attempt' = 0
    /\ before' = messages
    /\ requests' = <<>>
    /\ nresponses' = 0
    /\ attempts' = <<>>
    /\ execLog' = <<>>
    /\ result' = NoResult
    /\ idx' = 0
    /\ response' = NoResponse
    /\ pc' = "returned"
    /\ UNCHANGED <<ncalls, threads, parked>>

\* A Prompt or registry method: the vector stores are not involved
PromptCall(op) == MethodCall(op) /\ UNCHANGED db

\* r.m.Lock() on a mutex that is held: the caller is the only goroutine of the
\* program, nobody is left to unlock, the call never returns
LockWait(op, backend) ==
    /\ CallerReady
    /\ m # Unlocked
    /\ call' = [op |-> op, backend |-> backend]
    /\ attempt' = 0
    /\ before' = messages
    /\ requests' = <<>>
    /\ nresponses' = 0
    /\ attempts' = <<>>
    /\ execLog' = <<>>
    /\ result' = NoResult
    /\ idx' = 0
    /\ response' = NoResponse
    /\ ret' = NoReturn
    /\ pc' = "blocked"
    /\ UNCHANGED <<messages, parameters, tools, ncalls, m, threads, db, parked>>

\* Converse: ToolsMap returned an error, the call ends before anything is sent;
\* ToolsMap has returned from inside its loop, between Lock and Unlock
ToolsMapFails(backend) ==
    /\ CallerReady
    /\ m = Unlocked
    /\ ToolsMapErr(tools) # NoErr
    /\ call' = [op |-> "Converse", backend |-> backend]
    /\ attempt' = 1
    /\ before' = messages
    /\ requests' = <<>>
    /\ nresponses' = 0
    /\ attempts' = <<[resp |-> NoResponse,
                      err |-> Wrapf("failed to convert tools to map", ToolsMapErr(tools))]>>
    /\ execLog' = <<>>
    /\ result' = NoResult
    /\ idx' = 0
    /\ response' = NoResponse
    /\ m' = MainThread
    /\ UNCHANGED <<messages, parameters, tools, ncalls, threads, db, parked>>

IsCall(op, backend) == call = [op |-> op, backend |-> backend]

\* The tool calls of the reply in hand
OllamaToolCalls == result.result.Message.ToolCalls

OpenAIToolCalls == result.result.Choices[1].Message.ToolCalls

-----------------------------------------------------------------------------
\* Prompt methods and tool registration, called by the application

DoAddMessage ==
    \E in \in AddMessageInputs :
        /\ Len(messages) < MaxMsgs
        /\ PromptCall("AddMessage")
        /\ messages' = AddMessage(messages, in[1], in[2])
        /\ ret' = ReturnSelf
        /\ UNCHANGED <<parameters, tools, m>>

DoAppendMessage ==
    \E msg \in AppendMessageInputs :
        /\ Len(messages) < MaxMsgs
        /\ PromptCall("AppendMessage")
        /\ messages' = AppendMessage(messages, msg)
        /\ ret' = ReturnSelf
        /\ UNCHANGED <<parameters, tools, m>>

\* prompt.AppendMessage(msg) with any extra fields the caller likes
\* prompt.AddMessage(role, content), also on a conversation that has messages
DoAddAnyMessage(role, content) ==
    /\ Len(messages) <= MaxMsgs
    /\ PromptCall("AddMessage")
    /\ messages' = AddMessage(messages, role, content)
    /\ ret' = ReturnSelf
    /\ UNCHANGED <<parameters, tools, m>>

\* prompt.AppendMessage(msg), also on a conversation that has messages
DoAppendAnyMessage(msg) ==
    /\ Len(messages) <= MaxMsgs
    /\ PromptCall("AppendMessage")
    /\ messages' = AppendMessage(messages, msg)
    /\ ret' = ReturnSelf
    /\ UNCHANGED <<parameters, tools, m>>

\* prompt.SetParameters(params)
DoSetParameters(params) ==
    /\ PromptCall("SetParameters")
    /\ parameters' = SetParameters(parameters, params)
    /\ ret' = ReturnSelf
    /\ UNCHANGED <<messages, tools, m>>

DoAsMap ==
    /\ PromptCall("AsMap")
    /\ ret' = [NoReturn EXCEPT !.kind = "ok", !.wire = AsMap(messages)]
    /\ UNCHANGED <<messages, parameters, tools, m>>

\* prompt.Tools.RegisterTool(t): Lock, write, Unlock
DoRegisterTool ==
    \E t \in ToolInputs :
        IF m # Unlocked
        THEN LockWait("RegisterTool", "none")
        ELSE /\ PromptCall("RegisterTool")
             /\ tools' = RegisterTool(tools, t)
             /\ ret' = NoReturn
             /\ UNCHANGED <<messages, parameters, m>>

\* prompt.Tools.ToolsMap(): Lock, one ToMap per tool, Unlock unless ToMap failed
DoToolsMap ==
    IF m # Unlocked
    THEN LockWait("ToolsMap", "none")
    ELSE /\ PromptCall("ToolsMap")
         /\ IF ToolsMapErr(tools) # NoErr
            THEN /\ ret' = [NoReturn EXCEPT !.kind = "error", !.err = ToolsMapErr(tools)]
                 /\ m' = MainThread
            ELSE /\ ret' = [NoReturn EXCEPT !.kind = "ok", !.wire = ToolsMap(tools)]
                 /\ UNCHANGED m
         /\ UNCHANGED <<messages, parameters, tools>>

-----------------------------------------------------------------------------
\* OllamaBackend.Converse and converseRoundTrip

\* Converse: the first converseRoundTrip, up to Client.Do
OllamaConverse ==
    IF m # Unlocked
    THEN LockWait("Converse", "ollama")
    ELSE IF ToolsMapErr(tools) # NoErr
    THEN /\ ToolsMapFails("ollama")
         /\ ret' = NoReturn
         /\ pc' = "roundtrip_done"
    ELSE /\ StartCall("Converse", "ollama", OllamaChatRequest(messages, tools, FALSE))
         /\ UNCHANGED <<messages, parameters, tools, m>>

\* converseRoundTrip from Client.Do to the start of the tool-call loop
OllamaRoundTripResponse ==
    \E r \in OllamaResponses(OllamaChatResults) :
        /\ pc = "await"
        /\ IsCall("Converse", "ollama")
        /\ result' = r
        /\ nresponses' = nresponses + 1
        /\ LET err == OllamaCheckResponse(r)
               msg == r.result.Message
           IN  IF err # NoErr
               THEN /\ attempts' = Append(attempts, [resp |-> NoResponse, err |-> err])
                    /\ pc' = "roundtrip_done"
                    /\ UNCHANGED <<messages, idx, response>>
               ELSE IF Len(msg.ToolCalls) = 0
               THEN /\ messages' = AddMessage(messages, "assistant", msg.Content)
                    /\ attempts' = Append(attempts,
                          [resp |-> [Role |-> "assistant", Content |-> msg.Content,
                                     ToolCalls |-> <<>>],
                           err |-> NoErr])
                    /\ pc' = "roundtrip_done"
                    /\ UNCHANGED <<idx, response>>
               ELSE /\ idx' = 1
                    /\ response' = [Role |-> "tool", Content |-> "", ToolCalls |-> <<>>]
                    /\ pc' = "exec"
                    /\ UNCHANGED <<messages, attempts>>
        /\ UNCHANGED <<parameters, tools, call, attempt, ret, before, requests,
                       execLog, ncalls, m, threads, db, parked>>

OllamaExecuteToolKeepsGoing ==
    /\ pc = "exec"
    /\ IsCall("Converse", "ollama")
    /\ m = Unlocked
    /\ LET toolName == OllamaToolCalls[idx].Function.Name
           toolArgs == OllamaToolCalls[idx].Function.Arguments
           res == ExecuteTool(tools, toolName, toolArgs)
           acc == [response EXCEPT !.ToolCalls =
                      Append(@, ToolCall(toolName, toolArgs, res.out))]
       IN  /\ execLog' = Append(execLog,
                 [attempt |-> attempt, pos |-> idx, name |-> toolName,
                  args |-> toolArgs, found |-> res.found, ran |-> res.ran,
                  out |-> res.out, err |-> res.err])
           /\ messages' = IF res.err # NoErr THEN messages
                          ELSE OllamaToolMessages(messages, OllamaToolCalls, idx, res.out)
           /\ IF idx = Len(OllamaToolCalls)
              THEN /\ attempts' = Append(attempts,
                         IF res.err # NoErr
                         THEN [resp |-> NoResponse, err |-> OllamaToolError(res.err)]
                         ELSE [resp |-> acc, err |-> NoErr])
                   /\ pc' = "roundtrip_done"
                   /\ idx' = 0
                   /\ response' = NoResponse
              ELSE /\ idx' = idx + 1
                   /\ response' = acc
                   /\ UNCHANGED <<attempts, pc>>
    /\ UNCHANGED <<parameters, tools, call, attempt, result, ret, before, requests,
                   nresponses, ncalls, m, threads, db, parked>>

\* converseRoundTrip: one iteration of the loop over result.Message.ToolCalls
OllamaExecuteTool ==
    /\ pc = "exec"
    /\ IsCall("Converse", "ollama")
    /\ m = Unlocked
    /\ LET toolName == OllamaToolCalls[idx].Function.Name
           toolArgs == OllamaToolCalls[idx].Function.Arguments
           res == ExecuteTool(tools, toolName, toolArgs)
           acc == [response EXCEPT !.ToolCalls =
                      Append(@, ToolCall(toolName, toolArgs, res.out))]
       IN  /\ execLog' = Append(execLog,
                 [attempt |-> attempt, pos |-> idx, name |-> toolName,
                  args |-> toolArgs, found |-> res.found, ran |-> res.ran,
                  out |-> res.out, err |-> res.err])
           /\ IF res.err # NoErr
              THEN /\ attempts' = Append(attempts,
                         [resp |-> NoResponse, err |-> OllamaToolError(res.err)])
                   /\ pc' = "roundtrip_done"
                   /\ idx' = 0
                   /\ response' = NoResponse
                   /\ UNCHANGED messages
              ELSE /\ messages' = OllamaToolMessages(messages, OllamaToolCalls, idx, res.out)
                   /\ IF idx = Len(OllamaToolCalls)
                      THEN /\ attempts' = Append(attempts, [resp |-> acc, err |-> NoErr])
                           /\ pc' = "roundtrip_done"
                           /\ idx' = 0
                           /\ response' = NoResponse
                      ELSE /\ idx' = idx + 1
                           /\ response' = acc
                           /\ UNCHANGED <<attempts, pc>>
    /\ UNCHANGED <<parameters, tools, call, attempt, result, ret, before, requests,
                   nresponses, ncalls, m, threads, db, parked>>

\* Converse: the first round trip ended with ErrToolNotFound; send again, tools disabled
OllamaConverseRetry ==
    /\ pc = "roundtrip_done"
    /\ IsCall("Converse", "ollama")
    /\ OllamaRetries(attempt, attempts[Len(attempts)].err)
    /\ attempt' = attempt + 1
    /\ requests' = Append(requests, OllamaChatRequest(messages, tools, TRUE))
    /\ result' = NoResult
    /\ pc' = "await"
    /\ UNCHANGED <<messages, parameters, tools, call, idx, response, ret,
                   before, nresponses, attempts, execLog, ncalls, m, threads, db, parked>>

\* Converse: hand the round trip's (resp, err) to the caller
OllamaConverseReturn ==
    /\ pc = "roundtrip_done"
    /\ IsCall("Converse", "ollama")
    /\ ~OllamaRetries(attempt, attempts[Len(attempts)].err)
    /\ ret' = ReturnResponse(attempts[Len(attempts)].resp, attempts[Len(attempts)].err)
    /\ pc' = "returned"
    /\ UNCHANGED <<messages, parameters, tools, call, attempt, result, idx, response,
                   before, requests, nresponses, attempts, execLog, ncalls, m, threads, db, parked>>

-----------------------------------------------------------------------------
\* OpenAIBackend.Converse

\* Converse up to HTTPClient.Do
OpenAIConverse ==
    IF m # Unlocked
    THEN LockWait("Converse", "openai")
    ELSE IF ToolsMapErr(tools) # NoErr
    THEN /\ ToolsMapFails("openai")
         /\ ret' = ReturnResponse(NoResponse,
                      Wrapf("failed to convert tools to map", ToolsMapErr(tools)))
         /\ pc' = "returned"
    ELSE /\ StartCall("Converse", "openai", OpenAIChatRequest(messages, tools))
         /\ UNCHANGED <<messages, parameters, tools, m>>

\* Converse from HTTPClient.Do to the start of the tool-call loop
OpenAIConverseResponse ==
    \E r \in OpenAIResponses(OpenAIChatResults) :
        /\ pc = "await"
        /\ IsCall("Converse", "openai")
        /\ result' = r
        /\ nresponses' = nresponses + 1
        /\ LET err == OpenAICheckResponse(r)
               choices == r.result.Choices
           IN  IF err # NoErr
               THEN /\ attempts' = Append(attempts, [resp |-> NoResponse, err |-> err])
                    /\ ret' = ReturnResponse(NoResponse, err)
                    /\ pc' = "returned"
                    /\ UNCHANGED <<messages, idx, response>>
               ELSE IF Len(choices) = 0
               THEN \* result.Choices[0]: index out of range
                    /\ ret' = Panic
                    /\ pc' = "crashed"
                    /\ UNCHANGED <<messages, idx, response, attempts>>
               ELSE IF Len(choices[1].Message.ToolCalls) = 0
               THEN /\ messages' = AddMessage(messages, "assistant",
                                              choices[1].Message.Content)
                    /\ attempts' = Append(attempts,
                          [resp |-> [Role |-> "assistant",
                                     Content |-> choices[1].Message.Content,
                                     ToolCalls |-> <<>>],
                           err |-> NoErr])
                    /\ ret' = ReturnResponse(attempts'[Len(attempts')].resp, NoErr)
                    /\ pc' = "returned"
                    /\ UNCHANGED <<idx, response>>
               ELSE /\ idx' = 1
                    /\ response' = [Role |-> "tool", Content |-> "", ToolCalls |-> <<>>]
                    /\ pc' = "exec"
                    /\ UNCHANGED <<messages, attempts, ret>>
        /\ UNCHANGED <<parameters, tools, call, attempt, before, requests,
                       execLog, ncalls, m, threads, db, parked>>

\* Converse: one iteration of the loop over result.Choices[0].Message.ToolCalls
OpenAIExecuteTool ==
    /\ pc = "exec"
    /\ IsCall("Converse", "openai")
    /\ m = Unlocked
    /\ LET toolName == OpenAIToolCalls[idx].Function.Name
           toolArgs == OpenAIToolCalls[idx].Function.Arguments
           parsed == jsonUnmarshalArgs(toolArgs)
           res == ExecuteTool(tools, toolName, parsed.val)
           acc == [response EXCEPT !.ToolCalls =
                      Append(@, ToolCall(toolName, parsed.val, res.out))]
       IN  IF parsed.err # NoErr
           THEN /\ attempts' = Append(attempts,
                      [resp |-> NoResponse,
                       err |-> Wrapf("failed to unmarshal tool arguments", parsed.err)])
                /\ ret' = ReturnResponse(NoResponse, attempts'[Len(attempts')].err)
                /\ pc' = "returned"
                /\ idx' = 0
                /\ response' = NoResponse
                /\ UNCHANGED <<messages, execLog>>
           ELSE /\ execLog' = Append(execLog,
                      [attempt |-> attempt, pos |-> idx, name |-> toolName,
                       args |-> parsed.val, found |-> res.found, ran |-> res.ran,
                       out |-> res.out, err |-> res.err])
                /\ IF res.err # NoErr
                   THEN /\ attempts' = Append(attempts,
                              [resp |-> NoResponse, err |-> OpenAIToolError(res.err)])
                        /\ ret' = ReturnResponse(NoResponse, OpenAIToolError(res.err))
                        /\ pc' = "returned"
                        /\ idx' = 0
                        /\ response' = NoResponse
                        /\ UNCHANGED messages
                   ELSE /\ messages' = OpenAIToolMessages(messages, OpenAIToolCalls,
                                                          idx, res.out)
                        /\ IF idx = Len(OpenAIToolCalls)
                           THEN /\ attempts' = Append(attempts,
                                      [resp |-> acc, err |-> NoErr])
                                /\ ret' = ReturnResponse(acc, NoErr)
                                /\ pc' = "returned"
                                /\ idx' = 0
                                /\ response' = NoResponse
                           ELSE /\ idx' = idx + 1
                                /\ response' = acc
                                /\ UNCHANGED <<attempts, ret, pc>>
    /\ UNCHANGED <<parameters, tools, call, attempt, result, before, requests,
                   nresponses, ncalls, m, threads, db, parked>>

-----------------------------------------------------------------------------
\* Generate

\* OllamaBackend.Generate up to Client.Do
OllamaGenerate ==
    /\ StartCall("Generate", "ollama", OllamaGenerateRequest(messages, parameters))
    /\ UNCHANGED <<messages, parameters, tools, m>>

\* OllamaBackend.Generate from Client.Do to its return
OllamaGenerateResponse ==
    \E r \in OllamaResponses(OllamaGenerateResults) :
        /\ pc = "await"
        /\ IsCall("Generate", "ollama")
        /\ result' = r
        /\ nresponses' = nresponses + 1
        /\ LET err == OllamaGenerateCheckResponse(r)
           IN  IF err # NoErr
               THEN /\ ret' = ReturnText("", err)
                    /\ UNCHANGED messages
               ELSE /\ ret' = ReturnText(OllamaGenerateText(r.result), NoErr)
                    /\ messages' = GenerateMessages(messages, OllamaGenerateText(r.result))
        /\ pc' = "returned"
        /\ UNCHANGED <<parameters, tools, call, attempt, idx,
                       response, before, requests, attempts, execLog, ncalls, m, threads, db, parked>>

\* OpenAIBackend.Generate up to HTTPClient.Do
OpenAIGenerate ==
    /\ StartCall("Generate", "openai", OpenAIGenerateRequest(messages, parameters))
    /\ UNCHANGED <<messages, parameters, tools, m>>

\* OpenAIBackend.Generate from HTTPClient.Do to its return
OpenAIGenerateResponse ==
    \E r \in OpenAIResponses(OpenAIGenerateResults) :
        /\ pc = "await"
        /\ IsCall("Generate", "openai")
        /\ result' = r
        /\ nresponses' = nresponses + 1
        /\ LET err == OpenAIGenerateCheckResponse(r)
           IN  IF err # NoErr
               THEN /\ ret' = ReturnText("", err)
                    /\ pc' = "returned"
                    /\ UNCHANGED messages
               ELSE IF Len(r.result.Choices) = 0
               THEN \* result.Choices[0]: index out of range
                    /\ ret' = Panic
                    /\ pc' = "crashed"
                    /\ UNCHANGED messages
               ELSE /\ ret' = ReturnText(OpenAIGenerateText(r.result), NoErr)
                    /\ messages' = GenerateMessages(messages, OpenAIGenerateText(r.result))
                    /\ pc' = "returned"
        /\ UNCHANGED <<parameters, tools, call, attempt, idx,
                       response, before, requests, attempts, execLog, ncalls, m, threads, db, parked>>

\* examples/tools: the call before returned tool calls, the application calls
\* Converse again on the same conversation to have the results summarised
ToolRoundSucceeded ==
    /\ pc = "returned"
    /\ call.op = "Converse"
    /\ ret.kind = "ok"
    /\ Len(ret.resp.ToolCalls) > 0

\* The second Converse of the two-step pattern. The one before went through
\* ToolsMap on this registry and returned, so the lock is free and ToolsMap succeeds
OllamaConverseAgain ==
    /\ ToolRoundSucceeded
    /\ call.backend = "ollama"
    /\ ncalls <= MaxCalls
    /\ m = Unlocked /\ ToolsMapErr(tools) = NoErr
    /\ ncalls' = ncalls + 1
    /\ SendRequest("Converse", "ollama", OllamaChatRequest(messages, tools, FALSE))
    /\ UNCHANGED <<messages, parameters, tools, m>>

OpenAIConverseAgain ==
    /\ ToolRoundSucceeded
    /\ call.backend = "openai"
    /\ ncalls <= MaxCalls
    /\ m = Unlocked /\ ToolsMapErr(tools) = NoErr
    /\ ncalls' = ncalls + 1
    /\ SendRequest("Converse", "openai", OpenAIChatRequest(messages, tools))
    /\ UNCHANGED <<messages, parameters, tools, m>>

\* OpenAIBackend.Embed up to HTTPClient.Do
OpenAIEmbed ==
    \E text \in EmbedInputs :
        /\ StartCall("Embed", "openai", OpenAIEmbedRequest(text))
        /\ UNCHANGED <<messages, parameters, tools, m>>

\* OpenAIBackend.Embed from HTTPClient.Do to its return
OpenAIEmbedResponse ==
    \E r \in OpenAIEmbedResponses :
        /\ pc = "await"
        /\ IsCall("Embed", "openai")
        /\ result' = r
        /\ nresponses' = nresponses + 1
        /\ LET err == OpenAIEmbedCheckResponse(r)
           IN  IF err # NoErr
               THEN /\ ret' = ReturnEmbedding(<<>>, err)
                    /\ pc' = "returned"
               ELSE IF Len(r.result.Data) = 0
               THEN \* result.Data[0]: index out of range
                    /\ ret' = Panic
                    /\ pc' = "crashed"
               ELSE /\ ret' = ReturnEmbedding(r.result.Data[1].Embedding, NoErr)
                    /\ pc' = "returned"
        /\ UNCHANGED <<messages, parameters, tools, call, attempt, idx,
                       response, before, requests, attempts, execLog, ncalls, m, threads, db, parked>>

-----------------------------------------------------------------------------
\* The registry's methods called from goroutines that share it (tools.go), one
\* step per lock operation and per access of r.tools

\* What the goroutines pass in
ThreadToolInputs == ToolInputs \cup {StubWeatherTool, EnrollTool}

ExecuteToolInputs ==
    { [name |-> n, args |-> a] :
        n \in {"weather", "lookup", "enroll", "missing-tool"},
        a \in {[city |-> "London"], NoFields} }

\* Everything but the registry, its mutex and the goroutines
callervars == <<messages, parameters, pc, call, attempt, result, idx, response,
                ret, before, requests, nresponses, attempts, execLog, ncalls, db,
                parked>>

At(t, op, where) == threads[t].op = op /\ threads[t].pc = where

Goto(t, where) == threads' = [threads EXCEPT ![t].pc = where]

\* go registry.RegisterTool(tool)
GoRegisterTool ==
    \E t \in Threads, tool \in ThreadToolInputs :
        /\ threads[t].pc = "idle"
        /\ threads' = [threads EXCEPT ![t] =
              [op |-> "RegisterTool", pc |-> "lock", in |-> tool, out |-> <<>>, outer |-> <<>>]]
        /\ UNCHANGED <<tools, m, callervars>>

\* RegisterTool: r.m.Lock()
RegisterToolLock ==
    \E t \in Threads :
        /\ At(t, "RegisterTool", "lock")
        /\ m = Unlocked
        /\ m' = t
        /\ Goto(t, "write")
        /\ UNCHANGED <<tools, callervars>>

\* RegisterTool: r.tools[t.Function.Name] = t
RegisterToolWrite ==
    \E t \in Threads :
        /\ At(t, "RegisterTool", "write")
        /\ tools' = RegisterTool(tools, threads[t].in)
        /\ Goto(t, "unlock")
        /\ UNCHANGED <<m, callervars>>

\* RegisterTool: r.m.Unlock() and return, to the goroutine's caller or into the
\* wrapper that made the call
RegisterToolUnlock ==
    \E t \in Threads :
        /\ At(t, "RegisterTool", "unlock")
        /\ m' = Unlocked
        /\ threads' = [threads EXCEPT ![t] =
              IF threads[t].outer = <<>> THEN IdleThread
              ELSE [threads[t].outer[1] EXCEPT
                      !.pc = "unlock",
                      !.out = [found |-> TRUE, ran |-> <<>>] @@ enrollWrapperReturn]]
        /\ UNCHANGED <<tools, callervars>>

\* go registry.ToolsMap()
GoToolsMap ==
    \E t \in Threads :
        /\ threads[t].pc = "idle"
        /\ threads' = [threads EXCEPT ![t] =
              [op |-> "ToolsMap", pc |-> "len", in |-> <<>>, out |-> <<>>, outer |-> <<>>]]
        /\ UNCHANGED <<tools, m, callervars>>

\* ToolsMap: make(..., 0, len(r.tools)), a read of the map before Lock; the
\* number read only sizes the slice's backing array
ToolsMapLen ==
    \E t \in Threads :
        /\ At(t, "ToolsMap", "len")
        /\ Goto(t, "lock")
        /\ UNCHANGED <<tools, m, callervars>>

\* ToolsMap: r.m.Lock()
ToolsMapLock ==
    \E t \in Threads :
        /\ At(t, "ToolsMap", "lock")
        /\ m = Unlocked
        /\ m' = t
        /\ Goto(t, "range")
        /\ UNCHANGED <<tools, callervars>>

\* ToolsMap: the loop over r.tools; an error of ToMap returns from inside it,
\* with the mutex still locked
ToolsMapRange ==
    \E t \in Threads :
        /\ At(t, "ToolsMap", "range")
        /\ IF ToolsMapErr(tools) # NoErr
           THEN threads' = [threads EXCEPT ![t] = IdleThread]
           ELSE threads' = [threads EXCEPT ![t].pc = "unlock",
                                           ![t].out = ToolsMap(tools)]
        /\ UNCHANGED <<tools, m, callervars>>

\* ToolsMap: r.m.Unlock() and return
ToolsMapUnlock ==
    \E t \in Threads :
        /\ At(t, "ToolsMap", "unlock")
        /\ m' = Unlocked
        /\ threads' = [threads EXCEPT ![t] = IdleThread]
        /\ UNCHANGED <<tools, callervars>>

\* go registry.ExecuteTool(name, args)
GoExecuteTool ==
    \E t \in Threads, in \in ExecuteToolInputs :
        /\ threads[t].pc = "idle"
        /\ threads' = [threads EXCEPT ![t] =
              [op |-> "ExecuteTool", pc |-> "lock", in |-> in, out |-> <<>>, outer |-> <<>>]]
        /\ UNCHANGED <<tools, m, callervars>>

ExecuteToolLockSkipped ==
    \E t \in Threads :
        /\ At(t, "ExecuteTool", "lock")
        /\ Goto(t, "lookup")
        /\ UNCHANGED <<tools, m, callervars>>

\* ExecuteTool: r.m.Lock(); defer r.m.Unlock()
ExecuteToolLock ==
    \E t \in Threads :
        /\ At(t, "ExecuteTool", "lock")
        /\ m = Unlocked
        /\ m' = t
        /\ Goto(t, "lookup")
        /\ UNCHANGED <<tools, callervars>>

\* ExecuteTool: toolEntry, exists := r.tools[toolName]
ExecuteToolLookup ==
    \E t \in Threads :
        /\ At(t, "ExecuteTool", "lookup")
        /\ IF threads[t].in.name \in DOMAIN tools
           THEN threads' = [threads EXCEPT ![t].pc = "wrapper"]
           ELSE threads' = [threads EXCEPT
                   ![t].pc = "unlock",
                   ![t].out = ExecuteTool(tools, threads[t].in.name, threads[t].in.args)]
        /\ UNCHANGED <<tools, m, callervars>>

\* ExecuteTool: toolEntry.Function.Wrapper(args). A wrapper that calls
\* RegisterTool on this registry is at that method's first line from here on
ExecuteToolWrapper ==
    \E t \in Threads :
        /\ At(t, "ExecuteTool", "wrapper")
        /\ IF tools[threads[t].in.name].Wrapper = EnrollTool.Wrapper
           THEN threads' = [threads EXCEPT ![t] =
                   [op |-> "RegisterTool", pc |-> "lock", in |-> WeatherTool,
                    out |-> <<>>, outer |-> <<threads[t]>>]]
           ELSE threads' = [threads EXCEPT
                   ![t].pc = "unlock",
                   ![t].out = ExecuteTool(tools, threads[t].in.name, threads[t].in.args)]
        /\ UNCHANGED <<tools, m, callervars>>

\* ExecuteTool: the deferred r.m.Unlock() and return
ExecuteToolUnlock ==
    \E t \in Threads :
        /\ At(t, "ExecuteTool", "unlock")
        /\ m' = Unlocked
        /\ threads' = [threads EXCEPT ![t] = IdleThread]
        /\ UNCHANGED <<tools, callervars>>

RegistryNext ==
    \/ GoRegisterTool
    \/ RegisterToolLock
    \/ RegisterToolWrite
    \/ RegisterToolUnlock
    \/ GoToolsMap
    \/ ToolsMapLen
    \/ ToolsMapLock
    \/ ToolsMapRange
    \/ ToolsMapUnlock
    \/ GoExecuteTool
    \/ ExecuteToolLock
    \/ ExecuteToolLookup
    \/ ExecuteToolWrapper
    \/ ExecuteToolUnlock

\* The goroutines alone, on a registry nobody else touches
RegistrySpec == Init /\ [][RegistryNext]_vars

\* QdrantVector.CreateCollection; the server refuses a name it has, and may
\* fail otherwise
DoCreateCollection ==
    \E collectionName \in Collections, createOK \in BOOLEAN :
        /\ MethodCall("CreateCollection")
        /\ IF createOK /\ collectionName \notin db.collections
           THEN /\ db' = [db EXCEPT !.collections = @ \cup {collectionName}]
                /\ ret' = [NoReturn EXCEPT !.kind = "ok"]
           ELSE /\ UNCHANGED db
                /\ ret' = [NoReturn EXCEPT
                      !.kind = "error",
                      !.err = Wrapf("failed to create collection", NewError("rpc error"))]
        /\ UNCHANGED <<messages, parameters, tools, m>>

\* What the caller of SaveEmbeddings passes in; the id is the caller's
SaveEmbeddingsInputs ==
    { [docID |-> d, embedding |-> <<"0.9">>, metadata |-> md, collection |-> col] :
        d \in DocIDs,
        md \in {[content |-> "new"], NoFields},
        col \in Collections }

\* QdrantVector.SaveEmbeddings called by the application; the Upsert of the
\* client fails on a collection that does not exist, and may fail otherwise
DoQdrantSaveEmbeddings ==
    \E in \in SaveEmbeddingsInputs, upsertOK \in BOOLEAN :
        LET stored == UNION {db.qdrant[c] : c \in Collections}
        IN  /\ \/ Cardinality(stored) < MaxDocs
               \/ in.docID \in {q.Id : q \in db.qdrant[in.collection]}
            /\ MethodCall("QdrantSaveEmbeddings")
            /\ IF upsertOK /\ in.collection \in db.collections
               THEN /\ db' = [db EXCEPT
                              !.qdrant[in.collection] =
                                  SaveEmbeddings(@, in.docID, in.embedding, in.metadata),
                              !.last = in]
                    /\ ret' = [NoReturn EXCEPT !.kind = "ok"]
               ELSE /\ db' = [db EXCEPT !.last = in]
                    /\ ret' = [NoReturn EXCEPT
                          !.kind = "error",
                          !.err = Wrapf("failed to insert point", NewError("rpc error"))]
            /\ UNCHANGED <<messages, parameters, tools, m>>

\* QdrantVector.InsertDocument; the Upsert of the client fails on a collection
\* that does not exist, and may fail otherwise
DoInsertDocument ==
    \E in \in InsertDocumentInputs, upsertOK \in BOOLEAN :
        \E docID \in DocIDs \ {q.Id : q \in UNION {db.qdrant[c] : c \in Collections}} :
            /\ Cardinality(UNION {db.qdrant[c] : c \in Collections}) < MaxDocs
            /\ MethodCall("InsertDocument")
            /\ IF upsertOK /\ in.collection \in db.collections
               THEN /\ db' = [db EXCEPT
                              !.qdrant[in.collection] =
                                  SaveEmbeddings(@, docID, in.embedding,
                                                 InsertMetadata(in.content, in.opts)),
                              !.last = in]
                    /\ ret' = [NoReturn EXCEPT !.kind = "ok"]
               ELSE /\ db' = [db EXCEPT !.last = in]
                    /\ ret' = [NoReturn EXCEPT
                          !.kind = "error",
                          !.err = NewError("error saving embedding: failed to insert point: rpc error")]
            /\ UNCHANGED <<messages, parameters, tools, m>>

\* QueryRelevantDocuments' ([]Document, error)
ReturnDocuments(docs, err) ==
    [kind |-> IF err = NoErr THEN "ok" ELSE "error",
     resp |-> NoResponse, text |-> "", err |-> err, wire |-> docs]

PGRows == BagCardinality(db.pg["openai_embeddings"])
          + BagCardinality(db.pg["ollama_embeddings"])

\* PGVector.SaveEmbeddings(ctx, docID, embedding, metadata)
DoPGSaveEmbeddings ==
    \E docID \in PGDocIDs, embedding \in PGEmbeddingInputs, execOK \in BOOLEAN :
        LET metadata == [content |-> PGContent]
            res == PGSaveEmbeddings(db.pg, docID, embedding, metadata, execOK)
        IN  /\ PGRows < MaxRows
            /\ MethodCall("SaveEmbeddings")
            /\ db' = [db EXCEPT
                         !.pg = res.pg,
                         !.last = [docID |-> docID, embedding |-> embedding,
                                   metadata |-> metadata]]
            /\ ret' = ReturnDocuments(<<>>, res.err)
            /\ UNCHANGED <<messages, parameters, tools, m>>

\* PGVector.InsertDocument(ctx, content, embedding): a new "doc-<uuid>", the
\* content as metadata, SaveEmbeddings
DoPGInsertDocument ==
    \E embedding \in PGEmbeddingInputs, execOK \in BOOLEAN :
        \E docID \in PGDocIDs \ {r.doc_id : r \in UNION {BagToSet(db.pg[t]) : t \in PGTables}} :
            LET metadata == [content |-> PGContent]
                res == PGSaveEmbeddings(db.pg, docID, embedding, metadata, execOK)
            IN  /\ PGRows < MaxRows
                /\ MethodCall("PGInsertDocument")
                /\ db' = [db EXCEPT
                             !.pg = res.pg,
                             !.last = [docID |-> docID, embedding |-> embedding,
                                       metadata |-> metadata]]
                /\ ret' = ReturnDocuments(<<>>,
                             IF res.err = NoErr THEN NoErr
                             ELSE NewError("error saving embedding: " \o ErrorText(res.err)))
                /\ UNCHANGED <<messages, parameters, tools, m>>

\* PGVector.QueryRelevantDocuments(ctx, embedding, backend). conn.Query may
\* fail. An error the server raises while it executes the query, or a failure
\* of the connection while the rows arrive, ends rows.Next() and stays in
\* rows.Err(), which is not read: the rows read so far are returned without an
\* error. rows.Scan may fail on a row
DoQueryRelevantDocuments ==
    \E embedding \in PGQueryInputs, backend \in PGBackendInputs,
       queryOK \in BOOLEAN :
        LET table == TableOfBackend(backend)
        IN  /\ MethodCall("QueryRelevantDocuments")
            /\ db' = [db EXCEPT !.last = [embedding |-> embedding, backend |-> backend]]
            /\ IF table = ""
               THEN ret' = ReturnDocuments(<<>>,
                               NewError("unsupported backend: " \o backend))
               ELSE IF ~queryOK
               THEN ret' = ReturnDocuments(<<>>,
                               Wrapf("failed to query relevant documents",
                                     NewError("query")))
               ELSE \E rows \in (IF CanCompare(db.pg[table], embedding)
                                 THEN NearestRows(db.pg[table], embedding)
                                 ELSE {<<>>}) :
                       \E n \in 0..Len(rows), scanOK \in BOOLEAN :
                           IF ~scanOK /\ n >= 1
                           THEN ret' = ReturnDocuments(<<>>,
                                           Wrapf("failed to scan row", NewError("scan")))
                           ELSE ret' = ReturnDocuments(ScanRows(SubSeq(rows, 1, n)),
                                                       NoErr)
            /\ UNCHANGED <<messages, parameters, tools, m>>

\* What the running goroutine would leave behind: its Prompt and its call
RunningConversation ==
    [id |-> 3 - parked.id, messages |-> messages, parameters |-> parameters,
     tools |-> tools, pc |-> pc, call |-> call, attempt |-> attempt,
     result |-> result, idx |-> idx, response |-> response, ret |-> ret,
     before |-> before, requests |-> requests, nresponses |-> nresponses,
     attempts |-> attempts, execLog |-> execLog, ncalls |-> ncalls, m |-> m]

\* A scheduler under which the registry is the adapter's, one for every
\* conversation: the goroutine that resumes finds the other's registry
YieldKeepsRegistry ==
    /\ pc # "crashed"
    /\ parked' = [RunningConversation EXCEPT !.tools = parked.tools]
    /\ messages' = parked.messages
    /\ parameters' = parked.parameters
    /\ pc' = parked.pc
    /\ call' = parked.call
    /\ attempt' = parked.attempt
    /\ result' = parked.result
    /\ idx' = parked.idx
    /\ response' = parked.response
    /\ ret' = parked.ret
    /\ before' = parked.before
    /\ requests' = parked.requests
    /\ nresponses' = parked.nresponses
    /\ attempts' = parked.attempts
    /\ execLog' = parked.execLog
    /\ ncalls' = parked.ncalls
    /\ m' = parked.m
    /\ UNCHANGED <<tools, threads, db>>

\* The Go scheduler takes the running goroutine off and resumes the other one.
\* The adapter (BaseURL, Model, Client / APIKey, Model, HTTPClient, BaseURL) is
\* only read by the calls; everything a call writes is its own Prompt or local
\* to it. A panic that nothing recovers ends the program, the other goroutine
\* with it
Yield ==
    /\ pc # "crashed"
    /\ parked' = RunningConversation
    /\ messages' = parked.messages
    /\ parameters' = parked.parameters
    /\ tools' = parked.tools
    /\ pc' = parked.pc
    /\ call' = parked.call
    /\ attempt' = parked.attempt
    /\ result' = parked.result
    /\ idx' = parked.idx
    /\ response' = parked.response
    /\ ret' = parked.ret
    /\ before' = parked.before
    /\ requests' = parked.requests
    /\ nresponses' = parked.nresponses
    /\ attempts' = parked.attempts
    /\ execLog' = parked.execLog
    /\ ncalls' = parked.ncalls
    /\ m' = parked.m
    /\ UNCHANGED <<threads, db>>

\* A caller that stores documents in PostgreSQL and queries them
PGVectorNext ==
    \/ DoPGSaveEmbeddings
    \/ DoPGInsertDocument
    \/ DoQueryRelevantDocuments

PGVectorSpec == Init /\ [][PGVectorNext]_vars

\* A caller that only stores documents
QdrantNext ==
    \/ DoCreateCollection
    \/ DoQdrantSaveEmbeddings
    \/ DoInsertDocument

QdrantSpec == Init /\ [][QdrantNext]_vars

\* A caller that only builds the conversation and reads it back
PromptNext ==
    \/ \E role \in {"user", "system"},
          content \in {"What is the weather in London?", "You are a helpful assistant."} :
            DoAddAnyMessage(role, content)
    \/ \E msg \in AppendMessageInputs \cup CollidingMessageInputs : DoAppendAnyMessage(msg)
    \/ \E params \in ParametersInputs \cup {ZeroParameters} : DoSetParameters(params)
    \/ DoRegisterTool
    \/ DoAsMap

PromptSpec == Init /\ [][PromptNext]_vars

-----------------------------------------------------------------------------
Next ==
    \/ DoAddMessage
    \/ DoAppendMessage
    \/ \E params \in ParametersInputs \cup {ZeroParameters} : DoSetParameters(params)
    \/ DoAsMap
    \/ DoRegisterTool
    \/ DoToolsMap
    \/ OllamaConverse
    \/ OllamaRoundTripResponse
    \/ OllamaExecuteTool
    \/ OllamaConverseRetry
    \/ OllamaConverseReturn
    \/ OpenAIConverse
    \/ OpenAIConverseResponse
    \/ OpenAIExecuteTool
    \/ OllamaGenerate
    \/ OllamaGenerateResponse
    \/ OpenAIGenerate
    \/ OpenAIGenerateResponse
    \/ OpenAIEmbed
    \/ OpenAIEmbedResponse

Spec == Init /\ [][Next]_vars

\* A caller that builds a conversation of several messages and has the Ollama
\* adapter generate from it
GenerateNext ==
    \/ DoAddMessage
    \/ \E msg \in AppendMessageInputs \cup CollidingMessageInputs : DoAppendAnyMessage(msg)
    \/ \E params \in ParametersInputs \cup {ZeroParameters} : DoSetParameters(params)
    \/ DoRegisterTool
    \/ OllamaGenerate
    \/ OllamaGenerateResponse

GenerateSpec == Init /\ [][GenerateNext]_vars

\* Two goroutines, each with a new conversation and a registry of its own, that
\* call Converse and Generate on the adapters; the scheduler switches between
\* them anywhere
ConcurrentNext ==
    \/ DoRegisterTool
    \/ OllamaConverse
    \/ OllamaRoundTripResponse
    \/ OllamaExecuteTool
    \/ OllamaConverseRetry
    \/ OllamaConverseReturn
    \/ OllamaGenerate
    \/ OllamaGenerateResponse
    \/ OpenAIConverse
    \/ OpenAIConverseResponse
    \/ OpenAIExecuteTool
    \/ OpenAIGenerate
    \/ OpenAIGenerateResponse
    \/ Yield

ConcurrentSpec == Init /\ [][ConcurrentNext]_vars

\* The application of examples/tools: build the conversation, register tools,
\* Converse, and Converse once more after a round of tool calls
TwoStepNext ==
    \/ DoAddMessage
    \/ DoRegisterTool
    \/ OllamaConverse
    \/ OllamaRoundTripResponse
    \/ OllamaExecuteTool
    \/ OllamaConverseRetry
    \/ OllamaConverseReturn
    \/ OllamaConverseAgain
    \/ OpenAIConverse
    \/ OpenAIConverseResponse
    \/ OpenAIExecuteTool
    \/ OpenAIConverseAgain

TwoStepSpec == Init /\ [][TwoStepNext]_vars

-----------------------------------------------------------------------------
\* Vocabulary of the properties

IsPrefix(a, b) == Len(a) <= Len(b) /\ SubSeq(b, 1, Len(a)) = a

\* The messages the current call has appended so far
Appended == SubSeq(messages, Len(before) + 1, Len(messages))

Returned(op) == pc = "returned" /\ call.op = op

Succeeded(op) == Returned(op) /\ ret.kind = "ok"

Failed(op) == Returned(op) /\ ret.kind = "error"

\* The tool calls of the reply the last round trip decoded (none if it decoded none)
ReplyToolCalls ==
    IF result.failed \/ result.status # StatusOK \/ ~result.decodes THEN <<>>
    ELSE IF call.backend = "ollama" THEN OllamaToolCalls
    ELSE IF Len(result.result.Choices) = 0 THEN <<>>
    ELSE OpenAIToolCalls

\* The arguments of a reply's tool call as a map
ReplyArguments(c) ==
    IF call.backend = "ollama" THEN c.Function.Arguments
    ELSE jsonUnmarshalArgs(c.Function.Arguments).val

\* The ExecuteTool invocations of round trip n of the call
ExecutedIn(n) == SelectSeq(execLog, LAMBDA e : e.attempt = n)

\* Round trip n looked its reply's first tool call up and did not find it
FirstToolUnknown(n) ==
    \E k \in 1..Len(execLog) :
        execLog[k].attempt = n /\ execLog[k].pos = 1 /\ ~execLog[k].found

\* Every request of the call was answered with a call of an unregistered tool
AlwaysUnknownTool ==
    /\ Len(requests) >= 1
    /\ nresponses = Len(requests)
    /\ \A n \in 1..Len(requests) : FirstToolUnknown(n)

\* The call's last ExecuteTool ran a registered tool whose executor returned an error
ExecutorFailedLast ==
    /\ Len(execLog) > 0
    /\ execLog[Len(execLog)].found
    /\ execLog[Len(execLog)].err # NoErr

\* Some ExecuteTool of the call ran a registered tool whose executor returned an error
ExecutorFailed ==
    \E k \in 1..Len(execLog) : execLog[k].found /\ execLog[k].err # NoErr

-----------------------------------------------------------------------------
\* C1: for both adapters, when every request is answered with a call of an
\* unregistered tool, Converse issues exactly 2 requests, the original one and
\* one retry without tool descriptors, and fails with a ToolNotFound-class
\* error; a third request is never issued.
C1_RetryOnceBothAdapters ==
    /\ (Returned("Converse") /\ AlwaysUnknownTool) =>
          /\ Len(requests) = 2
          /\ "tools" \notin DOMAIN requests[2].body
          /\ ret.kind = "error"
          /\ ErrorsIs(ret.err, ErrToolNotFound)
    /\ call.op = "Converse" => Len(requests) < 3

\* C2: a Converse call sends at most 2 requests; the second one is sent only
\* after the first round trip has ended with ToolNotFound, never while the first
\* is in flight; whatever the second round trip yields is returned as it is.
C2_SecondRequestOnlyAfterToolNotFound ==
    call.op = "Converse" =>
        /\ Len(requests) <= 2
        /\ Len(requests) - nresponses \in {0, 1}
        /\ Len(requests) = 2 =>
              /\ Len(attempts) >= 1
              /\ nresponses >= 1
              /\ ErrorsIs(attempts[1].err, ErrToolNotFound)
        /\ (pc = "returned" /\ Len(requests) = 2) =>
              /\ Len(attempts) = 2
              /\ nresponses = 2
              /\ ret.err = attempts[2].err
              /\ ret.resp = attempts[2].resp

C2_Witness ==
    /\ Failed("Converse")
    /\ Len(requests) = 2
    /\ ~ErrorsIs(ret.err, ErrToolNotFound)

\* C3 (as claimed): when a registered tool's executor returns an error, whatever
\* the error, Converse makes exactly one request and returns an error.
C3_ExecutorErrorNeverRetried ==
    (Returned("Converse") /\ ExecutorFailed) =>
        /\ Len(requests) = 1
        /\ ret.kind = "error"

\* C4 (as claimed): when Converse fails because a tool executor returned an
\* error, the message list is the one the call started with.
C4_ExecutorErrorLeavesMessages ==
    (Failed("Converse") /\ ExecutorFailedLast /\ execLog[Len(execLog)].attempt = attempt)
        => messages = before

\* C5 (as claimed): a Converse that returns an assistant response has appended
\* exactly one message, the assistant message holding the returned content.
C5_AssistantReplyAppendsOne ==
    (Succeeded("Converse") /\ ret.resp.Role = "assistant") =>
        /\ Len(messages) = Len(before) + 1
        /\ messages[Len(messages)] = Message("assistant", ret.resp.Content, NoFields)

\* C6 (as claimed): after a successful Converse whose reply held n >= 1 tool
\* calls the message count has grown by at least 2*n, for every adapter.
C6_GrowthTwicePerToolCall ==
    (Succeeded("Converse") /\ Len(ReplyToolCalls) >= 1) =>
        Len(messages) - Len(before) >= 2 * Len(ReplyToolCalls)

\* C6 (amended): after a successful Converse whose reply held n >= 1 tool calls
\* the message count has grown by at least n for every adapter, and by exactly
\* 2*n for the OpenAI adapter.
C6_GrowthPerToolCall ==
    (Succeeded("Converse") /\ Len(ReplyToolCalls) >= 1) =>
        /\ Len(messages) - Len(before) >= Len(ReplyToolCalls)
        /\ call.backend = "openai" =>
              Len(messages) - Len(before) = 2 * Len(ReplyToolCalls)

C6_Witness ==
    /\ Succeeded("Converse")
    /\ call.backend = "ollama"
    /\ Len(ReplyToolCalls) = 2
    /\ Len(messages) - Len(before) = 2

\* C7: the message log is append-only: every step of every operation leaves the
\* list it found as a prefix of the list it leaves.
C7_AppendOnly == [][IsPrefix(messages, messages')]_vars

C7_Witness ==
    /\ Failed("Converse")
    /\ Len(before) > 0
    /\ Len(messages) > Len(before)

\* C8: after a successful Converse whose reply held the tool calls c1..cn, the
\* response has role tool and n ToolCalls in the reply's order, each with the
\* name and arguments of its ci and the string the executor returned for ci as
\* Result, and the new tool-role messages end with those strings in that order.
C8_ToolRoundResult ==
    (Succeeded("Converse") /\ Len(ReplyToolCalls) >= 1) =>
        LET n == Len(ReplyToolCalls)
            ran == ExecutedIn(attempt)
            toolMsgs == SelectSeq(Appended, LAMBDA msg : msg.Role = "tool")
        IN  /\ ret.resp.Role = "tool"
            /\ Len(ret.resp.ToolCalls) = n
            /\ Len(ran) = n
            /\ Len(toolMsgs) >= n
            /\ \A i \in 1..n :
                  /\ ran[i].pos = i
                  /\ ret.resp.ToolCalls[i].Function.Name = ReplyToolCalls[i].Function.Name
                  /\ ret.resp.ToolCalls[i].Function.Arguments
                        = ReplyArguments(ReplyToolCalls[i])
                  /\ ret.resp.ToolCalls[i].Function.Result = ran[i].out
                  /\ toolMsgs[Len(toolMsgs) - n + i].Content = ran[i].out

C8_Witness ==
    /\ Succeeded("Converse")
    /\ Len(ReplyToolCalls) = 2
    /\ ret.resp.ToolCalls[2].Function.Result = weatherData["London"]

\* C9 (as claimed): after a successful Generate the conversation holds exactly
\* one new message, an assistant message with the returned text.
C9_GenerateAppendsAssistant ==
    Succeeded("Generate") =>
        messages = Append(before, Message("assistant", ret.text, NoFields))

\* C9 (amended): after a successful Generate the conversation holds exactly the
\* messages it held before the call; the text is returned and not appended.
C9_GenerateLeavesMessages ==
    Succeeded("Generate") => messages = before

C9_Witness ==
    /\ Succeeded("Generate")
    /\ ret.text = "Hello!"
    /\ Len(before) > 0

\* C10: on a success response Generate returns exactly the reply text of the
\* backend (Ollama: the response field; OpenAI: the first choice's message
\* content) and has sent exactly one request.
C10_GenerateReturnsReplyText ==
    (Returned("Generate") /\ ~result.failed /\ result.status = StatusOK /\ result.decodes) =>
        /\ ret.kind = "ok"
        /\ ret.text = IF call.backend = "ollama"
                      THEN result.result.Response
                      ELSE result.result.Choices[1].Message.Content
        /\ Len(requests) = 1
        /\ nresponses = 1

C10_Witness ==
    /\ Succeeded("Generate")
    /\ call.backend = "ollama"
    /\ ret.text = "Hello!"
    /\ result.result.Message.Content # ret.text

-----------------------------------------------------------------------------
\* The registry under goroutines (RegistrySpec)

\* Goroutine t is inside ExecuteTool, past the lookup, the mutex still its own;
\* nobody has written r.tools since its lookup
Executed(t) == At(t, "ExecuteTool", "unlock")

\* The next step of goroutine t reads or writes r.tools
AccessesMap(t) == threads[t].pc \in {"len", "write", "range", "lookup"}

\* C11: ExecuteTool with a name that is not registered returns an error that is
\* ToolNotFound and an empty string, and has called no tool's wrapper, whatever
\* the registry holds and whatever the arguments are.
C11_UnknownToolNotExecuted ==
    \A t \in Threads :
        (Executed(t) /\ threads[t].in.name \notin DOMAIN tools) =>
            /\ threads[t].out.err # NoErr
            /\ ErrorsIs(threads[t].out.err, ErrToolNotFound)
            /\ threads[t].out.out = ""
            /\ threads[t].out.ran = <<>>

C11_Witness ==
    \E t \in Threads :
        /\ Executed(t)
        /\ threads[t].in.name = "missing-tool"
        /\ threads[t].in.args = [city |-> "London"]
        /\ {"weather", "lookup"} \subseteq DOMAIN tools
        /\ ErrorsIs(threads[t].out.err, ErrToolNotFound)

\* C12: the registry holds one entry per name, each under its own name; a
\* RegisterTool leaves its tool under the tool's name and every other entry as
\* it was, and nothing else changes an entry, so that each name maps to the tool
\* registered last under it; ExecuteTool of a registered name has called that
\* tool's wrapper exactly once, on the arguments it was given, and returns the
\* wrapper's string and error as they are.
C12_LastWriteWinsAndExecutes ==
    /\ [](/\ \A n \in DOMAIN tools : tools[n].Name = n
          /\ \A t \in Threads :
                At(t, "RegisterTool", "unlock") =>
                    /\ threads[t].in.Name \in DOMAIN tools
                    /\ tools[threads[t].in.Name] = threads[t].in
          /\ \A t \in Threads :
                (Executed(t) /\ threads[t].in.name \in DOMAIN tools) =>
                    LET w == tools[threads[t].in.name].Wrapper
                        a == threads[t].in.args
                    IN  /\ threads[t].out.ran = <<Invocation(w, a)>>
                        /\ threads[t].out.out = Wrapper(w, a).out
                        /\ threads[t].out.err = Wrapper(w, a).err)
    /\ [][\/ tools' = tools
          \/ \E t \in Threads :
                /\ At(t, "RegisterTool", "write")
                /\ threads'[t].pc = "unlock"
                /\ DOMAIN tools' = DOMAIN tools \cup {threads[t].in.Name}
                /\ \A n \in DOMAIN tools :
                      n # threads[t].in.Name => tools'[n] = tools[n]]_vars

C12_Witness ==
    \E t, u \in Threads :
        /\ Executed(t)
        /\ threads[t].in = [name |-> "weather", args |-> [city |-> "London"]]
        /\ threads[t].out.out = "Sunny"
        /\ At(u, "RegisterTool", "lock")
        /\ threads[u].in = WeatherTool
        /\ "lookup" \in DOMAIN tools

\* C13 (as claimed): a ToolsMap call returns one descriptor per registered name,
\* and an AsMap or ToolsMap call made right after another one returns what the
\* first returned; neither changes the messages or the registry's contents.
C13_RepeatedCallsAgree ==
    /\ [](Returned("ToolsMap") =>
            /\ ret.kind = "ok"
            /\ {d.function.name : d \in ret.wire} = DOMAIN tools
            /\ Cardinality(ret.wire) = Cardinality(DOMAIN tools))
    /\ [][(\/ Returned("AsMap") /\ call'.op = "AsMap"
           \/ Returned("ToolsMap") /\ call'.op = "ToolsMap") =>
              /\ pc' = "returned"
              /\ ret' = ret
              /\ messages' = messages
              /\ tools' = tools]_vars

\* C14 (as claimed): whenever a goroutine is about to read or write the
\* registry's map it holds the registry's mutex, so no two goroutines are at an
\* access of the map at the same time.
C14_MapAccessUnderLock ==
    /\ \A t \in Threads : AccessesMap(t) => m = t
    /\ \A t, u \in Threads : (t # u /\ AccessesMap(t)) => ~AccessesMap(u)

-----------------------------------------------------------------------------
\* Converse, attempt by attempt (Spec)

\* The round trip that is running has ended (its result is in attempts)
AttemptEnded ==
    /\ call.op = "Converse"
    /\ pc \in {"roundtrip_done", "returned"}
    /\ attempt >= 1
    /\ Len(attempts) = attempt

\* The attempt sent nothing (the request could not be built), or its exchange
\* failed in transport, came back with a status other than 200 or did not decode
FailedBeforeTools ==
    \/ requests = <<>>
    \/ result.failed
    \/ result.status # StatusOK
    \/ ~result.decodes

\* The messages the conversation held when the running attempt began, as a wire list
AttemptStartWire ==
    IF requests = <<>> THEN AsMap(before) ELSE requests[Len(requests)].body.messages

\* The first round trip has ended and every tool call of its reply was executed
\* without error
FirstReplyAllExecuted ==
    /\ call.op = "Converse"
    /\ Len(attempts) >= 1
    /\ ExecutedIn(1) # <<>>
    /\ \A k \in 1..Len(execLog) : execLog[k].attempt = 1 => execLog[k].err = NoErr
    /\ attempt = 1 => Len(ExecutedIn(1)) = Len(ReplyToolCalls)

\* C15: a Converse attempt that fails before its tool-call loop (the tool list
\* does not marshal, transport failure, status other than 200, undecodable
\* body) ends with an error, has executed no tool and leaves the conversation
\* with the messages it held when the attempt began.
C15_EarlyFailureLeavesMessages ==
    (AttemptEnded /\ FailedBeforeTools) =>
        /\ attempts[attempt].err # NoErr
        /\ ExecutedIn(attempt) = <<>>
        /\ AsMap(messages) = AttemptStartWire
        /\ attempt = 1 => messages = before

C15_Witness ==
    /\ AttemptEnded
    /\ call.backend = "ollama"
    /\ attempt = 2
    /\ result.failed
    /\ ret.kind = "error"
    /\ Len(messages) > Len(before)

\* C16: when every tool call of the first reply was executed without error,
\* the Converse call has sent exactly one request, built from the messages the
\* call started with, sends no other request before it returns, and returns the
\* tool response; a Converse request always carries the messages the
\* conversation holds when it is sent, so the results travel with the next call.
C16_ToolRoundSendsNothingMore ==
    /\ [](FirstReplyAllExecuted =>
            /\ attempt = 1
            /\ Len(requests) = 1
            /\ nresponses = 1
            /\ requests[1].body.messages = AsMap(before)
            /\ pc = "returned" =>
                  /\ ret.kind = "ok"
                  /\ ret.resp.Role = "tool"
                  /\ Len(ret.resp.ToolCalls) = Len(ExecutedIn(1)))
    /\ []((call.op = "Converse" /\ pc = "await") =>
            requests[Len(requests)].body.messages = AsMap(messages))
    /\ [][(FirstReplyAllExecuted /\ pc # "returned") => requests' = requests]_vars

C16_Witness ==
    /\ Succeeded("Converse")
    /\ FirstReplyAllExecuted
    /\ Len(ExecutedIn(1)) = 2
    /\ Len(requests) = 1
    /\ Len(before) > 0

\* C17 (as claimed): Ollama Converse returns the error of the last attempt it
\* made whenever that attempt failed; it makes a second attempt only after a
\* first attempt that was aborted by a tool call naming a tool the registry
\* does not hold, and if the second reply holds no tool calls it returns the
\* assistant response with that reply's content.
C17_OnlyMissingToolHidden ==
    (Returned("Converse") /\ call.backend = "ollama") =>
        /\ attempts[Len(attempts)].err # NoErr =>
              (ret.kind = "error" /\ ret.err = attempts[Len(attempts)].err)
        /\ Len(attempts) = 2 =>
              LET ran == ExecutedIn(1)
              IN  /\ ran # <<>>
                  /\ ~ran[Len(ran)].found
                  /\ ErrorsIs(attempts[1].err, ErrToolNotFound)
        /\ (Len(attempts) = 2 /\ ~FailedBeforeTools /\ ReplyToolCalls = <<>>) =>
              /\ ret.kind = "ok"
              /\ ret.resp.Role = "assistant"
              /\ ret.resp.Content = result.result.Message.Content

\* C18 (as claimed): a Converse call never comes to wait on the registry's mutex
\* with nobody left to unlock it.
C18_ConverseNeverWaitsForever ==
    call.op = "Converse" => pc # "blocked"

\* C19 (as claimed): the request of the retry carries exactly the messages of
\* the first request, and when it is sent the conversation holds exactly the
\* messages the call started with.
C19_RetryReissuesRequest ==
    (call.op = "Converse" /\ Len(requests) = 2) =>
        /\ requests[2].body.messages = requests[1].body.messages
        /\ pc = "await" => messages = before

\* C20 (as claimed): after a successful Converse of the OpenAI adapter whose
\* reply held the tool calls c1..cn, the messages the call appended are, for
\* each i in order, an assistant message echoing ci's id, type, function name
\* and arguments, then a tool message with ci's id as tool_call_id and ci's
\* result as content.
C20_EnvelopePerToolCall ==
    (Succeeded("Converse") /\ call.backend = "openai" /\ Len(ReplyToolCalls) >= 1) =>
        /\ Len(Appended) = 2 * Len(ReplyToolCalls)
        /\ \A i \in 1..Len(ReplyToolCalls) :
              LET c == ReplyToolCalls[i]
                  echo == Appended[2 * i - 1]
                  reply == Appended[2 * i]
              IN  /\ echo.Role = "assistant"
                  /\ echo.Fields.tool_calls =
                        <<[id |-> c.ID, type |-> c.Type,
                           function |-> [name |-> c.Function.Name,
                                         arguments |-> c.Function.Arguments]]>>
                  /\ reply.Role = "tool"
                  /\ reply.Fields.tool_call_id = c.ID
                  /\ reply.Content = ret.resp.ToolCalls[i].Function.Result

-----------------------------------------------------------------------------
\* The conversation's own methods (PromptSpec)

\* C21: AsMap returns one map per message, in message order; each map holds
\* the keys role and content and every key of the message's extra fields, each
\* extra field with its own value; role and content are the message's Role and
\* Content unless an extra field has that key, and then the extra field's value
\* stands.
C21_AsMapFlattens ==
    Returned("AsMap") =>
        /\ ret.kind = "ok"
        /\ Len(ret.wire) = Len(messages)
        /\ \A i \in 1..Len(messages) :
              LET msg == messages[i]
                  wire == ret.wire[i]
              IN  /\ DOMAIN wire = {"role", "content"} \cup DOMAIN msg.Fields
                  /\ \A k \in DOMAIN msg.Fields : wire[k] = msg.Fields[k]
                  /\ "role" \notin DOMAIN msg.Fields => wire["role"] = msg.Role
                  /\ "content" \notin DOMAIN msg.Fields => wire["content"] = msg.Content

C21_Witness ==
    /\ Returned("AsMap")
    /\ Len(messages) = 2
    /\ messages[1].Fields = NoFields
    /\ messages[2].Role = "assistant"
    /\ ret.wire[2]["role"] = "system"
    /\ ret.wire[1]["role"] = "user"

\* C22: AddMessage(role, content) and AppendMessage(msg) leave the conversation
\* with the messages it had, in their order, followed by exactly one more, the
\* message of that role and content without extra fields or msg itself; they
\* keep the parameters and the registry and return the conversation itself.
\* SetParameters(params) leaves the conversation with exactly params as its
\* parameters, whatever they were before, keeps the messages and the registry
\* and returns the conversation itself.
C22_BuilderMethods ==
    [][/\ \A role \in {"user", "system"},
             content \in {"What is the weather in London?",
                          "You are a helpful assistant."} :
            DoAddAnyMessage(role, content) =>
                /\ messages' = messages \o <<Message(role, content, NoFields)>>
                /\ parameters' = parameters
                /\ tools' = tools
                /\ ret' = ReturnSelf
       /\ \A msg \in AppendMessageInputs \cup CollidingMessageInputs :
            DoAppendAnyMessage(msg) =>
                /\ messages' = messages \o <<msg>>
                /\ parameters' = parameters
                /\ tools' = tools
                /\ ret' = ReturnSelf
       /\ \A params \in ParametersInputs \cup {ZeroParameters} :
            DoSetParameters(params) =>
                /\ parameters' = params
                /\ messages' = messages
                /\ tools' = tools
                /\ ret' = ReturnSelf
       /\ call'.op \in {"AddMessage", "AppendMessage"} =>
            /\ Len(messages') = Len(messages) + 1
            /\ IsPrefix(messages, messages')
            /\ parameters' = parameters
            /\ tools' = tools
       /\ call'.op = "SetParameters" =>
            /\ messages' = messages
            /\ tools' = tools]_vars

\* AddMessage has run on a conversation that had a message, after SetParameters
\* has replaced parameters that were set, with a tool in the registry
C22_Witness ==
    /\ Returned("AddMessage")
    /\ Len(messages) = 2
    /\ messages[1].Fields # NoFields
    /\ messages[2] = Message("system", "You are a helpful assistant.", NoFields)
    /\ messages[1] # messages[2]
    /\ parameters = ZeroParameters
    /\ DOMAIN tools # {}
    /\ ret = ReturnSelf

\* C23: a successful InsertDocument adds exactly one point, to the collection it
\* was given and to no other; the point's vector is the embedding argument and
\* its payload's "content" is the content argument, whatever options were passed
C23_InsertStoresContent ==
    [][(call'.op = "InsertDocument" /\ ret'.kind = "ok") =>
          LET in == db'.last
              added == db'.qdrant[in.collection] \ db.qdrant[in.collection]
          IN  /\ Cardinality(added) = 1
              /\ db.qdrant[in.collection] \subseteq db'.qdrant[in.collection]
              /\ \A c \in Collections \ {in.collection} : db'.qdrant[c] = db.qdrant[c]
              /\ \A q \in added :
                    /\ q.Vectors = in.embedding
                    /\ "content" \in DOMAIN q.Payload
                    /\ q.Payload["content"] = in.content]_vars

\* C24: a Converse request has a "tools" entry, holding the registry's
\* descriptors, exactly when the registry is non-empty and the attempt is not the
\* retry with tools disabled; otherwise the request has no "tools" entry
C24_ToolsEntryIffRegistered ==
    call.op = "Converse" =>
        \A i \in 1..Len(requests) :
            LET body == requests[i].body
            IN  IF DOMAIN tools # {} /\ i = 1
                THEN "tools" \in DOMAIN body /\ body["tools"] = ToolsMap(tools)
                ELSE "tools" \notin DOMAIN body

\* The last response came back with status 200 and a body that decodes, into a
\* reply without the element the adapter reads: no choice, no embedding
UnexpectedShape ==
    /\ nresponses >= 1
    /\ ~result.failed
    /\ result.status = StatusOK
    /\ result.decodes
    /\ \/ call.op \in {"Converse", "Generate"} /\ call.backend = "openai"
          /\ Len(result.result.Choices) = 0
       \/ call.op = "Embed" /\ Len(result.result.Data) = 0

\* C25: no call crashes, and a call whose success response decodes to an
\* unexpected shape (no choices, no embedding data) returns an error
C25_UnexpectedShapeIsError ==
    /\ pc # "crashed"
    /\ (UnexpectedShape /\ pc # "await") => (pc = "returned" /\ ret.kind = "error")

\* The error the adapters build from a response's status and body
HTTPFailure(r) ==
    NewError("failed to generate response from "
             \o (IF call.backend = "ollama" THEN "Ollama" ELSE "OpenAI")
             \o ": status code " \o ToString(r.status) \o ", response: " \o r.body)

\* C26: a response whose status is not 2xx ends the attempt, and with it
\* Converse, with the error that carries the status and the body; a response
\* whose status is 2xx is never turned into that error
C26_FailureIffNot2xx ==
    (call.op = "Converse" /\ nresponses >= 1 /\ pc # "await" /\ ~result.failed) =>
        IF result.status \in 200..299
        THEN /\ ret.err # HTTPFailure(result)
             /\ attempts # <<>> => attempts[Len(attempts)].err # HTTPFailure(result)
        ELSE /\ pc \in {"roundtrip_done", "returned"}
             /\ attempts # <<>> /\ attempts[Len(attempts)].err = HTTPFailure(result)
             /\ pc = "returned" => Failed("Converse") /\ ret.err = HTTPFailure(result)

\* C27: the ExecuteTool invocations of an attempt are those of its reply's tool
\* calls, made one after the other from the first on, after the reply was received
\* and decoded; an invocation that returned an error is the last of its attempt
C27_ToolCallsInOrder ==
    call.op = "Converse" =>
        \A k \in 1..Len(execLog) :
            LET e == execLog[k]
                first == k = 1 \/ execLog[k - 1].attempt # e.attempt
            IN  /\ e.attempt \in 1..nresponses
                /\ first => e.pos = 1
                /\ k > 1 => execLog[k - 1].attempt <= e.attempt
                /\ ~first => /\ e.pos = execLog[k - 1].pos + 1
                             /\ execLog[k - 1].err = NoErr
                /\ e.attempt = attempt =>
                      /\ e.pos <= Len(ReplyToolCalls)
                      /\ e.name = ReplyToolCalls[e.pos].Function.Name
                      /\ e.args = ReplyArguments(ReplyToolCalls[e.pos])

\* An attempt ended on the failure of the first of its reply's two tool calls
C27_Witness ==
    /\ AttemptEnded
    /\ Len(ReplyToolCalls) = 2
    /\ Len(ExecutedIn(attempt)) = 1
    /\ execLog[Len(execLog)].err # NoErr

\* C28: a Converse call that starts right after a Converse that returned tool
\* calls sends the messages of that call's first request followed by the maps of
\* the messages that call appended, in the order appended, extra fields included
C28_SecondCallSendsHistory ==
    [][(ToolRoundSucceeded /\ call'.op = "Converse" /\ pc' = "await") =>
          /\ Len(requests') = 1
          /\ requests'[1].body.messages =
                 requests[1].body.messages \o AsMap(Appended)]_vars

\* The second call of the two-step pattern is out, with the tool-call id of the
\* first call's tool message in it
C28_Witness ==
    /\ call.op = "Converse"
    /\ pc = "await"
    /\ ncalls = MaxCalls + 1
    /\ Len(requests) = 1
    /\ requests[1].body.messages[1]["role"] = "user"
    /\ \E i \in 2..Len(requests[1].body.messages) :
          /\ requests[1].body.messages[i]["role"] = "tool"
          /\ "tool_call_id" \in DOMAIN requests[1].body.messages[i]

\* C29: a goroutine that is outside the registry's methods (it has called none,
\* or the one it called has returned, with or without an error) does not hold
\* the registry's lock
C29_LockReleasedOnReturn ==
    \A t \in Threads : threads[t].pc = "idle" => m # t

\* Goroutine t is inside a tool's wrapper, or inside a registry method the
\* wrapper called
ExecutorRuns(t) == At(t, "ExecuteTool", "wrapper") \/ threads[t].outer # <<>>

\* Goroutine t is inside a registry method, past its r.m.Lock()
PastLock(t) == threads[t].pc \in {"write", "range", "lookup", "wrapper", "unlock"}

\* C30: while a tool's wrapper runs, the goroutine that runs it holds the lock,
\* no other goroutine is past the Lock of RegisterTool, ToolsMap or ExecuteTool,
\* and no other wrapper runs; a wrapper that has called a registry method of
\* the same registry stays in that call, before its Lock, for ever
C30_ExecutorRunsUnderLock ==
    /\ [](\A t \in Threads :
            ExecutorRuns(t) =>
                /\ m = t
                /\ \A u \in Threads \ {t} : ~PastLock(u) /\ ~ExecutorRuns(u))
    /\ [][\A t \in Threads :
            threads[t].outer # <<>> =>
                /\ threads'[t] = threads[t]
                /\ ~PastLock(t)]_vars

\* A wrapper waits in the RegisterTool it called, and another goroutine's
\* registry call waits at its Lock
C30_Witness ==
    \E t \in Threads, u \in Threads :
        /\ t # u
        /\ threads[t].outer # <<>>
        /\ threads[t].outer[1].op = "ExecuteTool"
        /\ At(t, "RegisterTool", "lock")
        /\ threads[u].pc = "lock"
        /\ threads[u].outer = <<>>

\* The argument strings that are the JSON of an argument mapping
IsArgumentMapping(s) ==
    s \in {"{\"city\":\"London\"}", "{\"city\":\"Atlantis\"}", "{}"}

\* The OpenAI adapter is about to handle a tool call whose arguments are not
\* the JSON of an argument mapping
AtInvalidArguments ==
    /\ IsCall("Converse", "openai")
    /\ pc = "exec"
    /\ ~IsArgumentMapping(OpenAIToolCalls[idx].Function.Arguments)

\* C32: the OpenAI adapter, at a tool call whose arguments string is not valid
\* JSON of an argument mapping, ends Converse with the unmarshal error; it
\* executes no tool from there on and appends no message
C32_InvalidArgumentsEndConverse ==
    [][AtInvalidArguments =>
          /\ pc' = "returned"
          /\ ret'.kind = "error"
          /\ ret'.err[1] = "failed to unmarshal tool arguments"
          /\ execLog' = execLog
          /\ messages' = messages]_vars

\* Converse ended on the invalid arguments of the first of two tool calls: none
\* was executed and the conversation is as it was
C32_Witness ==
    /\ Failed("Converse")
    /\ call.backend = "openai"
    /\ ret.err[1] = "failed to unmarshal tool arguments"
    /\ Len(ReplyToolCalls) = 2
    /\ ~IsArgumentMapping(ReplyToolCalls[1].Function.Arguments)
    /\ IsArgumentMapping(ReplyToolCalls[2].Function.Arguments)
    /\ execLog = <<>>
    /\ messages = before

\* The lines "role: content", one per message, first message first
RECURSIVE RoleContentLines(_)
RoleContentLines(msgs) ==
    IF msgs = <<>> THEN ""
    ELSE Head(msgs).Role \o ": " \o Head(msgs).Content \o "\n"
         \o RoleContentLines(Tail(msgs))

\* C33: Ollama's Generate sends exactly one request; its prompt is the lines
\* "role: content" of the conversation's messages in order, not empty when
\* there is a message; the request has no tools entry and no tool is executed
C33_GeneratePromptText ==
    IsCall("Generate", "ollama") =>
        /\ Len(requests) = 1
        /\ requests[1].body["prompt"] = RoleContentLines(before)
        /\ before # <<>> => requests[1].body["prompt"] # ""
        /\ "tools" \notin DOMAIN requests[1].body
        /\ execLog = <<>>

\* Generate has returned on a conversation of two different messages, with
\* tools registered
C33_Witness ==
    /\ Returned("Generate")
    /\ call.backend = "ollama"
    /\ Len(before) = 2
    /\ before[1] # before[2]
    /\ DOMAIN tools # {}
    /\ nresponses = 1

\* The row a save call is asked to store
SavedRow ==
    [doc_id |-> db.last.docID, embedding |-> db.last.embedding,
     metadata |-> db.last.metadata]

\* C34: a save of an embedding of 1536 components that returns no error adds
\* its row to the OpenAI table and leaves the Ollama table alone; one of 1024
\* components adds it to the Ollama table and leaves the OpenAI table alone; a
\* save of any other length returns an error; a save that returns an error
\* leaves both tables as they were
C34_SaveRoutesByLength ==
    [][call'.op \in {"SaveEmbeddings", "PGInsertDocument"} =>
          LET n == Dim(db'.last.embedding)
              added == SetToBag({SavedRow'})
          IN  /\ n \notin {1536, 1024} => ret'.kind = "error"
              /\ ret'.kind = "error" => db'.pg = db.pg
              /\ (n = 1536 /\ ret'.kind = "ok") =>
                    /\ db'.pg["openai_embeddings"] = db.pg["openai_embeddings"] (+) added
                    /\ db'.pg["ollama_embeddings"] = db.pg["ollama_embeddings"]
              /\ (n = 1024 /\ ret'.kind = "ok") =>
                    /\ db'.pg["ollama_embeddings"] = db.pg["ollama_embeddings"] (+) added
                    /\ db'.pg["openai_embeddings"] = db.pg["openai_embeddings"]]_vars

\* An embedding of 1024 components was saved next to rows of the OpenAI table
C34_Witness ==
    /\ Succeeded("SaveEmbeddings")
    /\ Dim(db.last.embedding) = 1024
    /\ BagIn(SavedRow, db.pg["ollama_embeddings"])
    /\ ~BagIn(SavedRow, db.pg["openai_embeddings"])
    /\ BagCardinality(db.pg["openai_embeddings"]) >= 1

\* The documents are those of some rows of the table, each row used once
DocumentsOf(docs, table) ==
    \E rows \in [1..Len(docs) -> BagToSet(table)] :
        /\ SeqToBag(rows) \sqsubseteq table
        /\ \A i \in 1..Len(docs) :
              docs[i] = [ID |-> rows[i].doc_id, Metadata |-> rows[i].metadata]

\* C35: the OpenAI table holds rows of 1536 components only and the Ollama
\* table rows of 1024 only; a query for backend openai or ollama returns at most
\* 5 documents, all of rows of that backend's table; a query for another
\* backend returns an error and no document
C35_QueryNamedTableOnly ==
    /\ \A r \in BagToSet(db.pg["openai_embeddings"]) : Dim(r.embedding) = 1536
    /\ \A r \in BagToSet(db.pg["ollama_embeddings"]) : Dim(r.embedding) = 1024
    /\ Returned("QueryRelevantDocuments") =>
          /\ Len(ret.wire) <= 5
          /\ db.last.backend = "openai" =>
                DocumentsOf(ret.wire, db.pg["openai_embeddings"])
          /\ db.last.backend = "ollama" =>
                DocumentsOf(ret.wire, db.pg["ollama_embeddings"])
          /\ db.last.backend \notin {"openai", "ollama"} =>
                ret.kind = "error" /\ ret.wire = <<>>

\* A query for backend openai returned 5 of the 6 rows of the OpenAI table,
\* while the Ollama table holds a row as well
C35_Witness ==
    /\ Succeeded("QueryRelevantDocuments")
    /\ db.last.backend = "openai"
    /\ BagCardinality(db.pg["openai_embeddings"]) = 6
    /\ BagCardinality(db.pg["ollama_embeddings"]) = 1
    /\ Len(ret.wire) = 5

-----------------------------------------------------------------------------
\* Two conversations on one adapter

Conversations == {1, 2}

\* The conversation of goroutine c, running or not
Conv(c) == IF parked.id = c THEN parked ELSE RunningConversation

\* The step is one of the running goroutine, not a switch of the scheduler
RunningSteps == parked'.id = parked.id

\* What the step added to the record of the running call's ExecuteTool invocations
NewExecutions == SubSeq(execLog', Len(execLog) + 1, Len(execLog'))

\* C31: Converse and Generate calls that run concurrently on different
\* conversations through the same adapter do not affect each other: in every
\* interleaving a step of one goroutine leaves the other conversation, its
\* messages and its registry and its call, as it was, a switch between the
\* goroutines leaves both as they were, so a conversation's messages change in
\* steps of its own calls only; and a tool that a call executes is the one its
\* own conversation's registry holds under the name, a name its registry lacks
\* executes nothing even if the other registry has it.
C31_ConversationsIndependent ==
    [][ /\ \A c \in Conversations :
              (c = parked.id \/ ~RunningSteps) => Conv(c)' = Conv(c)
        /\ RunningSteps =>
              \A i \in DOMAIN NewExecutions :
                  LET e == NewExecutions[i]
                  IN  /\ e.found = (e.name \in DOMAIN tools)
                      /\ e.found =>
                            e.ran = <<Invocation(tools[e.name].Wrapper, e.args)>>
                      /\ ~e.found => e.ran = <<>> ]_vars

\* Two Converse calls on the adapter named are under way at once: the reply of
\* the running one asked for a tool that only the other conversation's registry
\* has and it was not found, while the other call, in the middle of its tool
\* loop, has executed that tool from its registry and holds the messages of it
ForeignToolNotFound(backend) ==
    /\ IsCall("Converse", backend)
    /\ parked.call = call
    /\ parked.pc = "exec"
    /\ pc \in {"roundtrip_done", "returned"}
    /\ execLog # <<>>
    /\ parked.execLog # <<>>
    /\ LET e == execLog[Len(execLog)]
           f == parked.execLog[1]
       IN  /\ ~e.found
           /\ e.name \notin DOMAIN tools
           /\ e.name \in DOMAIN parked.tools
           /\ f.name = e.name
           /\ f.found
           /\ f.ran # <<>>
    /\ DOMAIN tools # {}
    /\ Len(parked.messages) > Len(parked.before)
    /\ messages = before

C31_Witness == ForeignToolNotFound("openai")

=============================================================================
